---- MODULE Spec2Model ----
(***************************************************************************)
(* Model of the OpenStack provider of jasmin-cloud                         *)
(* (src/api/jasmin_cloud/provider/openstack/provider.py).                  *)
(*                                                                         *)
(* cloud   : the vendor state of the tenancy (networks, subnets, ports,    *)
(*           floating IPs, servers, volumes), changed only by vendor calls *)
(* session : the fields of the ScopedSession (tenancy name, templates,     *)
(*           availability-zone map, metadata prefix)                       *)
(* last    : the last completed call of a session method: its arguments,   *)
(*           the vendor calls it issued in order, what it returned or      *)
(*           raised, and the vendor state it started from                  *)
(*                                                                         *)
(* Python object references are ids (positive numbers), None is 0.  Names, *)
(* tags and metadata keys are sequences of string pieces, so that          *)
(* str.format, startswith and removeprefix are computed piece by piece.    *)
(***************************************************************************)
EXTENDS Integers, Sequences, FiniteSets, TLC

VARIABLES cloud, session, last, calls

vars == <<cloud, session, last, calls>>

(***************************************************************************)
(* Bounds of the model.                                                    *)
(***************************************************************************)
MaxNetworks == 5
MaxPorts == 2
MaxServers == 1
MaxCalls == 3

(***************************************************************************)
(* Python values.                                                          *)
(***************************************************************************)
None == 0
NoError == "no error"
NoTemplate == <<>>

Max(S) == CHOOSE x \in S : \A y \in S : y <= x
Min(S) == CHOOSE x \in S : \A y \in S : x <= y
Ids(S) == {x.id : x \in S}
NextId(S) == IF S = {} THEN 1 ELSE Max(Ids(S)) + 1
ById(S, id) == CHOOSE x \in S : x.id = id
\* next(iterator, None) over a vendor listing, which lists in id order
FirstId(S) == IF S = {} THEN None ELSE Min(Ids(S))

(***************************************************************************)
(* One invocation of a session method: the vendor state it works on, the   *)
(* vendor calls issued so far, the call that is to fail (0: none), the     *)
(* error raised, the value returned (an id in ret, or a record in dto),    *)
(* and whether random.choice was called.                                   *)
(***************************************************************************)
\* no DTO returned
NoDto == [id |-> None]

\* no call of another session is under way
NoCalls == <<>>

Begin(cl, fail) ==
    [cloud |-> cl, log |-> <<>>, fail |-> fail, err |-> NoError, ret |-> None,
     dto |-> NoDto, drawn |-> FALSE]

Fails(c) == c.fail = Len(c.log) + 1

Logged(c, call, arg, ok) ==
    [c EXCEPT !.log = Append(@, [call |-> call, arg |-> arg, ok |-> ok])]

Raise(c, e) == [c EXCEPT !.err = e, !.ret = None, !.dto = NoDto]

Return(c, v) == [c EXCEPT !.ret = v]

\* the statements after a call run when the call raised nothing
Then(c, F(_)) == IF c.err # NoError THEN c ELSE F(c)

\* except errors.ObjectNotFoundError: return None
NoneIfNotFound(c) ==
    IF c.err = "ObjectNotFoundError"
    THEN [c EXCEPT !.err = NoError, !.ret = None, !.dto = NoDto]
    ELSE c

\* convert_exceptions: a rackit.RackitError without a status code
TransportFailure(c, call, arg) ==
    Raise(Logged(c, call, arg, FALSE), "CommunicationError")

(***************************************************************************)
(* Vendor calls on the network service.                                    *)
(***************************************************************************)
RoleTag(net_type) == <<"portal-", net_type>>

\* connection.network.networks.all(tags = tag), first result
networks_first_tagged(c, tag) ==
    IF Fails(c) THEN TransportFailure(c, "networks.all", tag)
    ELSE Return(Logged(c, "networks.all", tag, TRUE),
                FirstId({n \in c.cloud.networks : tag \in n.tags}))

\* connection.network.networks.find_by_name(net_name)
networks_find_by_name(c, net_name) ==
    IF Fails(c) THEN TransportFailure(c, "networks.find_by_name", net_name)
    ELSE Return(Logged(c, "networks.find_by_name", net_name, TRUE),
                FirstId({n \in c.cloud.networks : n.name = net_name}))

\* connection.network.networks.create(name = name)
networks_create(c, name) ==
    IF Fails(c) THEN TransportFailure(c, "networks.create", name)
    ELSE LET id == NextId(c.cloud.networks)
             network == [id |-> id, name |-> name, tags |-> {},
                         external |-> FALSE, shared |-> FALSE]
         IN  Return([Logged(c, "networks.create", name, TRUE)
                        EXCEPT !.cloud.networks = @ \cup {network}], id)

\* network._update_tags(tags)
network_update_tags(c, id, tags) ==
    IF Fails(c) THEN TransportFailure(c, "network._update_tags", id)
    ELSE [Logged(c, "network._update_tags", id, TRUE)
            EXCEPT !.cloud.networks =
                {IF n.id = id THEN [n EXCEPT !.tags = tags] ELSE n : n \in @}]

\* connection.network.subnets.create(network_id, ip_version, cidr)
subnets_create(c, network_id, ip_version, cidr) ==
    IF Fails(c) THEN TransportFailure(c, "subnets.create", network_id)
    ELSE [Logged(c, "subnets.create", network_id, TRUE)
            EXCEPT !.cloud.subnets = @ \cup
                {[network_id |-> network_id, ip_version |-> ip_version,
                  cidr |-> cidr]}]

\* the ids listed by the two queries of gen_external_networks, in order
external_networks_listing(c) ==
    IF Fails(c) THEN TransportFailure(c, "networks.all", <<"router:external", "unshared">>)
    ELSE LET c1 == Logged(c, "networks.all", <<"router:external", "unshared">>, TRUE)
         IN  IF Fails(c1)
             THEN TransportFailure(c1, "networks.all", <<"router:external", "shared">>)
             ELSE Logged(c1, "networks.all", <<"router:external", "shared">>, TRUE)

\* a vendor listing: the ids of S in id order
RECURSIVE Listing(_)
Listing(S) ==
    IF S = {} THEN <<>>
    ELSE LET first == Min(Ids(S))
         IN  <<first>> \o Listing({x \in S : x.id # first})

\* networks.all(router:external = True, shared = False)
Unshared(cl) == Listing({n \in cl.networks : n.external /\ ~n.shared})
\* networks.all(router:external = True, project_id = None, shared = True)
Shared(cl) == Listing({n \in cl.networks : n.external /\ n.shared})

(***************************************************************************)
(* Network resolver.                                                       *)
(***************************************************************************)
\* template.format(tenant_name = tenancy name)
FormatTemplate(template, tenant_name) ==
    [i \in 1..Len(template) |->
        IF template[i] = "{tenant_name}" THEN tenant_name ELSE template[i]]

\* mutant: looks for the tag portal_<role>, which no network carries
_tagged_network_wrong_tag(c, net_type) ==
    networks_first_tagged(c, <<"portal_", net_type>>)

_tagged_network(c, net_type) == networks_first_tagged(c, RoleTag(net_type))

\* mutant: a template that names no network yields None instead of raising
_templated_network_soft(c, template, net_type) ==
    networks_find_by_name(c, FormatTemplate(template, session.tenancy))

_templated_network(c, template, net_type) ==
    Then(networks_find_by_name(c, FormatTemplate(template, session.tenancy)),
         LAMBDA c1 :
    IF c1.ret # None THEN c1
    ELSE Raise(c1, "InvalidOperationError"))

\* mutant: the subnet is created before the network is tagged
_tenant_network_tag_last(c, create_network) ==
    Then(_tagged_network(c, "internal"), LAMBDA c1 :
    IF c1.ret # None THEN c1
    ELSE IF session.internal_net_template # NoTemplate
    THEN _templated_network(c1, session.internal_net_template, "internal")
    ELSE IF create_network
    THEN Then(networks_create(c1, <<"portal-internal">>), LAMBDA c2 :
         Then(subnets_create(c2, c2.ret, 4, session.internal_net_cidr), LAMBDA c3 :
         Then(network_update_tags(c3, c2.ret, {RoleTag("internal")}), LAMBDA c4 :
         Return(c4, c2.ret))))
    ELSE Return(c1, None))

\* mutant: a network is created whether or not create_network is set
_tenant_network_always_creates(c, create_network) ==
    Then(_tagged_network(c, "internal"), LAMBDA c1 :
    IF c1.ret # None THEN c1
    ELSE IF session.internal_net_template # NoTemplate
    THEN _templated_network(c1, session.internal_net_template, "internal")
    ELSE Then(networks_create(c1, <<"portal-internal">>), LAMBDA c2 :
         Then(network_update_tags(c2, c2.ret, {RoleTag("internal")}), LAMBDA c3 :
         Then(subnets_create(c3, c2.ret, 4, session.internal_net_cidr), LAMBDA c4 :
         Return(c4, c2.ret)))))

_tenant_network(c, create_network) ==
    Then(_tagged_network(c, "internal"), LAMBDA c1 :
    IF c1.ret # None THEN c1
    ELSE IF session.internal_net_template # NoTemplate
    THEN _templated_network(c1, session.internal_net_template, "internal")
    ELSE IF create_network
    THEN Then(networks_create(c1, <<"portal-internal">>), LAMBDA c2 :
         Then(network_update_tags(c2, c2.ret, {RoleTag("internal")}), LAMBDA c3 :
         Then(subnets_create(c3, c2.ret, 4, session.internal_net_cidr), LAMBDA c4 :
         Return(c4, c2.ret))))
    ELSE Return(c1, None))

\* mutant: with several external networks the first one is used
_external_network_first(c) ==
    Then(_tagged_network(c, "external"), LAMBDA c1 :
    IF c1.ret # None THEN c1
    ELSE IF session.external_net_template # NoTemplate
    THEN _templated_network(c1, session.external_net_template, "external")
    ELSE Then(external_networks_listing(c1), LAMBDA c2 :
         LET networks == Unshared(c1.cloud) \o Shared(c1.cloud)
         IN  IF Len(networks) >= 1
             THEN Return(c2, networks[1])
             ELSE Raise(c2, "InvalidOperationError")))

_external_network(c) ==
    Then(_tagged_network(c, "external"), LAMBDA c1 :
    IF c1.ret # None THEN c1
    ELSE IF session.external_net_template # NoTemplate
    THEN _templated_network(c1, session.external_net_template, "external")
    ELSE Then(external_networks_listing(c1), LAMBDA c2 :
         LET networks == Unshared(c1.cloud) \o Shared(c1.cloud)
         IN  IF Len(networks) = 1
             THEN Return(c2, networks[1])
             ELSE Raise(c2, "InvalidOperationError")))

(***************************************************************************)
(* Vendor calls on the image, network and compute services.                *)
(***************************************************************************)
\* connection.image.images.get(id); rackit.NotFound is a 404
images_get(c, id) ==
    IF Fails(c) THEN TransportFailure(c, "images.get", id)
    ELSE IF id \notin Ids(c.cloud.images)
    THEN Raise(Logged(c, "images.get", id, FALSE), "ObjectNotFoundError")
    ELSE Return(Logged(c, "images.get", id, TRUE), id)

\* connection.network.ports.create(port_params)
ports_create(c, port_params) ==
    IF Fails(c) THEN TransportFailure(c, "ports.create", port_params.network_id)
    ELSE LET id == NextId(c.cloud.ports)
             port == [id |-> id, device_id |-> None,
                      network_id |-> port_params.network_id,
                      vnic_type |-> port_params.vnic_type]
         IN  Return([Logged(c, "ports.create", port_params.network_id, TRUE)
                        EXCEPT !.cloud.ports = @ \cup {port}], id)

\* connection.compute.keypairs.get(key_name, force = True), and on
\* rackit.NotFound connection.compute.keypairs.create(name, public_key)
keypairs_get_or_create(c, key_name, public_key) ==
    IF Fails(c) THEN TransportFailure(c, "keypairs.get", key_name)
    ELSE LET found == \E k \in c.cloud.keypairs : k.name = key_name
             c1 == Logged(c, "keypairs.get", key_name, found)
         IN  IF found THEN c1
             ELSE IF Fails(c1) THEN TransportFailure(c1, "keypairs.create", key_name)
             ELSE [Logged(c1, "keypairs.create", key_name, TRUE)
                     EXCEPT !.cloud.keypairs =
                        @ \cup {[name |-> key_name, public_key |-> public_key]}]

\* connection.compute.servers.create(params); the vendor binds the ports
\* named in params to the new server
servers_create(c, params) ==
    IF Fails(c) THEN TransportFailure(c, "servers.create", params.networks)
    ELSE LET id == NextId(c.cloud.servers)
             server == [id |-> id] @@ params
             bound == {params.networks[i].port : i \in 1..Len(params.networks)}
         IN  Return([Logged(c, "servers.create", params.networks, TRUE)
                        EXCEPT !.cloud.servers = @ \cup {server},
                               !.cloud.ports =
                                  {IF p.id \in bound THEN [p EXCEPT !.device_id = id]
                                   ELSE p : p \in @}], id)

\* connection.compute.servers.get(id)
servers_get(c, id) ==
    IF Fails(c) THEN TransportFailure(c, "servers.get", id)
    ELSE IF id \notin Ids(c.cloud.servers)
    THEN Raise(Logged(c, "servers.get", id, FALSE), "ObjectNotFoundError")
    ELSE Return(Logged(c, "servers.get", id, TRUE), id)

(***************************************************************************)
(* Resource translator: images.                                            *)
(***************************************************************************)
\* key.startswith(prefix)
StartsWith(key, prefix) == Len(key) >= 1 /\ key[1] = prefix
\* key.removeprefix(prefix), for a key that starts with it
RemovePrefix(key, prefix) == Tail(key)
\* dict.get(key) of a dict given as a function, None when absent
Get(dict, key) == IF key \in DOMAIN dict THEN dict[key] ELSE ""
Truthy(value) == value # ""

_from_api_image(api_image) ==
    LET prefixed == {key \in DOMAIN api_image.data :
                        StartsWith(key, session.metadata_prefix)}
        stripped == {RemovePrefix(key, session.metadata_prefix) : key \in prefixed}
    IN  [id |-> api_image.id,
         metadata |->
            [k \in stripped |->
                api_image.data[CHOOSE key \in prefixed :
                    RemovePrefix(key, session.metadata_prefix) = k]]]

(***************************************************************************)
(* Machine orchestrator.                                                   *)
(***************************************************************************)
\* re.sub('[^a-zA-Z0-9]+', '-', username): a username is a sequence of
\* pieces, each a run of alphanumerics or a run of other characters
NonAlphanumeric == {".", "@", "_", "._"}

sanitise_username(username) ==
    [i \in 1..Len(username) |->
        IF username[i] \in NonAlphanumeric THEN "-" ELSE username[i]]

\* an SSH key is the sequence of its whitespace-separated fields (type,
\* base64 payload, comment); no key is the empty sequence
NoKey == <<>>

\* hashlib.md5(base64.b64decode(payload)).hexdigest() of the payloads used
\* here, each digest as its first 8 characters and the remaining 24
Md5Hex ==
    ("AAAAC3NzaC1lZDI1NTE5AAAAIFw1EQ8PV503e0hpf4FnolRs9ODf7GtnNvdxKLsjA/8/"
        :> <<"bc370dc2", "1fab68c53be875b4e57a8745">>)
    @@ ("AAAAC3NzaC1lZDI1NTE5AAAAIJlf6dPofRjtMTZEiBAfsNEw/l2P1gFGT0bBbVlsVurX"
        :> <<"bc370dc2", "40d222f24aa4f88602568729">>)
    @@ ("AAAAC3NzaC1lZDI1NTE5AAAAINdTHzRaobEeGzqM8VHLdLBz+6BJ/G8zFXzPxrDlTrtd"
        :> <<"f80abf65", "6807ab47d4e33612600ca278">>)

\* ssh_key.split()[1], digested
fingerprint(ssh_key) == Md5Hex[ssh_key[2]]

\* "<username>-<truncated fingerprint>": fingerprint[:8]
KeyName(ssh_key) ==
    sanitise_username(session.username) \o <<"-", fingerprint(ssh_key)[1]>>

_get_or_create_keypair(c, ssh_key) ==
    keypairs_get_or_create(c, KeyName(ssh_key), ssh_key)

\* _from_api_server reads tenant_network.name: with no tenant network that
\* is an AttributeError on None
find_machine(c, id) ==
    Then(servers_get(c, id), LAMBDA c1 :
    Then(_tenant_network(c1, FALSE), LAMBDA c2 :
    IF c2.ret = None THEN Raise(c2, "AttributeError")
    ELSE Return(c2, id)))

\* image.metadata.get(self._metadata_prefix + 'private_if')
WantsBackdoor(image) ==
    Truthy(Get(image.metadata, <<session.metadata_prefix, "private_if">>))

\* mutant: the keypair is resolved after the server has been submitted
create_machine_key_last(c, image, ssh_key, zone) ==
    LET img == IF image.kind = "dto" THEN image.dto
               ELSE _from_api_image(ById(c.cloud.images, image.id))
        backdoor == WantsBackdoor(img)
        az_map == session.az_backdoor_net_map
        backdoor_net == IF zone \in DOMAIN az_map THEN az_map[zone] ELSE None
        params(networks) ==
            [image_id |-> img.id,
             networks |-> networks,
             availability_zone |-> IF backdoor /\ zone # "nova" THEN zone ELSE "",
             key_name |-> IF ssh_key # NoKey THEN KeyName(ssh_key) ELSE <<>>]
    IN  Then(IF image.kind = "dto" THEN c
             ELSE LET f == images_get(c, image.id)
                  IN  IF f.err = "ObjectNotFoundError"
                      THEN Raise(f, "BadInputError") ELSE f, LAMBDA c1 :
        Then(_tenant_network(c1, TRUE), LAMBDA c2 :
        IF backdoor /\ DOMAIN az_map = {}
        THEN Raise(c2, "ImproperlyConfiguredError")
        ELSE
        Then(IF backdoor
             THEN ports_create([c2 EXCEPT !.drawn = TRUE],
                               [network_id |-> backdoor_net,
                                vnic_type |-> session.backdoor_vnic_type])
             ELSE c2, LAMBDA c3 :
        Then(servers_create(c3, params(
                IF backdoor
                THEN <<[uuid |-> c2.ret, port |-> None],
                       [uuid |-> None, port |-> c3.ret]>>
                ELSE <<[uuid |-> c2.ret, port |-> None]>>)), LAMBDA c4 :
        Then(IF ssh_key # NoKey
             THEN Return(_get_or_create_keypair(c4, ssh_key), c4.ret) ELSE c4,
             LAMBDA c5 :
        find_machine(c5, c5.ret))))))

\* image: [kind |-> "id", id |-> ...] or [kind |-> "dto", dto |-> ...];
\* ssh_key: none, or the key the key store holds for the user; zone: the availability zone random.choice picks
create_machine(c, image, ssh_key, zone) ==
    LET img == IF image.kind = "dto" THEN image.dto
               ELSE _from_api_image(ById(c.cloud.images, image.id))
        backdoor == WantsBackdoor(img)
        az_map == session.az_backdoor_net_map
        backdoor_net == IF zone \in DOMAIN az_map THEN az_map[zone] ELSE None
        params(networks) ==
            [image_id |-> img.id,
             networks |-> networks,
             availability_zone |-> IF backdoor /\ zone # "nova" THEN zone ELSE "",
             key_name |-> IF ssh_key # NoKey THEN KeyName(ssh_key) ELSE <<>>]
    IN  Then(IF image.kind = "dto" THEN c
             ELSE LET f == images_get(c, image.id)
                  IN  IF f.err = "ObjectNotFoundError"
                      THEN Raise(f, "BadInputError") ELSE f, LAMBDA c1 :
        Then(_tenant_network(c1, TRUE), LAMBDA c2 :
        IF backdoor /\ DOMAIN az_map = {}
        THEN Raise(c2, "ImproperlyConfiguredError")
        ELSE
        Then(IF backdoor
             THEN ports_create([c2 EXCEPT !.drawn = TRUE],
                               [network_id |-> backdoor_net,
                                vnic_type |-> session.backdoor_vnic_type])
             ELSE c2, LAMBDA c3 :
        Then(IF ssh_key # NoKey THEN _get_or_create_keypair(c3, ssh_key) ELSE c3,
             LAMBDA c4 :
        Then(servers_create(c4, params(
                IF backdoor
                THEN <<[uuid |-> c2.ret, port |-> None],
                       [uuid |-> None, port |-> c3.ret]>>
                ELSE <<[uuid |-> c2.ret, port |-> None]>>)), LAMBDA c5 :
        find_machine(c5, c5.ret))))))

(***************************************************************************)
(* Vendor calls on ports and floating IPs.                                 *)
(***************************************************************************)
\* next(connection.network.ports.all(device_id, network_id), None)
ports_first(c, device_id, network_id) ==
    IF Fails(c) THEN TransportFailure(c, "ports.all", <<device_id, network_id>>)
    ELSE Return(Logged(c, "ports.all", <<device_id, network_id>>, TRUE),
                FirstId({p \in c.cloud.ports :
                            p.device_id = device_id /\ p.network_id = network_id}))

\* connection.network.ports.get(id)
ports_get(c, id) ==
    IF Fails(c) THEN TransportFailure(c, "ports.get", id)
    ELSE IF id \notin Ids(c.cloud.ports)
    THEN Raise(Logged(c, "ports.get", id, FALSE), "ObjectNotFoundError")
    ELSE Return(Logged(c, "ports.get", id, TRUE), id)

\* connection.network.floatingips.find_by_port_id(port_id)
floatingips_find_by_port_id(c, port_id) ==
    IF Fails(c) THEN TransportFailure(c, "floatingips.find_by_port_id", port_id)
    ELSE Return(Logged(c, "floatingips.find_by_port_id", port_id, TRUE),
                FirstId({f \in c.cloud.floatingips : f.port_id = port_id}))

\* connection.network.floatingips.get(ip); rackit.NotFound is a 404
floatingips_get(c, ip) ==
    IF Fails(c) THEN TransportFailure(c, "floatingips.get", ip)
    ELSE IF ip \notin Ids(c.cloud.floatingips)
    THEN Raise(Logged(c, "floatingips.get", ip, FALSE), "ObjectNotFoundError")
    ELSE Return(Logged(c, "floatingips.get", ip, TRUE), ip)

\* fip._update(port_id = port_id)
floatingip_update(c, ip, port_id) ==
    IF Fails(c) THEN TransportFailure(c, "floatingip._update", <<ip, port_id>>)
    ELSE Return([Logged(c, "floatingip._update", <<ip, port_id>>, TRUE)
                    EXCEPT !.cloud.floatingips =
                        {IF f.id = ip THEN [f EXCEPT !.port_id = port_id] ELSE f :
                            f \in @}], ip)

(***************************************************************************)
(* External-IP manager.                                                    *)
(***************************************************************************)
\* ports: the ids of the port index handed in, {} for none; the DTO is
\* returned as the id of the floating IP
_from_api_floatingip(c, api_floatingip, ports) ==
    LET port_id == ById(c.cloud.floatingips, api_floatingip).port_id
    IN  IF port_id # None
        THEN IF ports # {}
             THEN IF port_id \in ports THEN Return(c, api_floatingip)
                  ELSE Raise(c, "KeyError")
             ELSE Then(ports_get(c, port_id), LAMBDA c1 :
                  Return(c1, api_floatingip))
        ELSE Return(c, api_floatingip)

\* mutant: the floating IP already on the port is left bound
attach_external_ip_no_eviction(c, ip, machine) ==
    Then(_tenant_network(c, FALSE), LAMBDA c1 :
    Then(IF c1.ret # None THEN ports_first(c1, machine, c1.ret) ELSE c1,
         LAMBDA c2 :
    IF c2.ret = None THEN Raise(c2, "InvalidOperationError")
    ELSE
    Then(floatingips_get(c2, ip), LAMBDA c5 :
    Then(floatingip_update(c5, ip, c2.ret), LAMBDA c6 :
    _from_api_floatingip(c6, ip, {})))))

\* mutant: the tenant network is created when it is missing
attach_external_ip_creating(c, ip, machine) ==
    Then(_tenant_network(c, TRUE), LAMBDA c1 :
    Then(IF c1.ret # None THEN ports_first(c1, machine, c1.ret) ELSE c1,
         LAMBDA c2 :
    IF c2.ret = None THEN Raise(c2, "InvalidOperationError")
    ELSE
    Then(floatingips_find_by_port_id(c2, c2.ret), LAMBDA c3 :
    Then(IF c3.ret # None THEN floatingip_update(c3, c3.ret, None) ELSE c3,
         LAMBDA c4 :
    Then(floatingips_get(c4, ip), LAMBDA c5 :
    Then(floatingip_update(c5, ip, c2.ret), LAMBDA c6 :
    _from_api_floatingip(c6, ip, {})))))))

attach_external_ip(c, ip, machine) ==
    Then(_tenant_network(c, FALSE), LAMBDA c1 :
    Then(IF c1.ret # None THEN ports_first(c1, machine, c1.ret) ELSE c1,
         LAMBDA c2 :
    IF c2.ret = None THEN Raise(c2, "InvalidOperationError")
    ELSE
    Then(floatingips_find_by_port_id(c2, c2.ret), LAMBDA c3 :
    Then(IF c3.ret # None THEN floatingip_update(c3, c3.ret, None) ELSE c3,
         LAMBDA c4 :
    Then(floatingips_get(c4, ip), LAMBDA c5 :
    Then(floatingip_update(c5, ip, c2.ret), LAMBDA c6 :
    _from_api_floatingip(c6, ip, {})))))))

detach_external_ip(c, ip) ==
    Then(floatingips_get(c, ip), LAMBDA c1 :
    Then(floatingip_update(c1, ip, None), LAMBDA c2 :
    _from_api_floatingip(c2, ip, {})))

(***************************************************************************)
(* External-IP manager: listing.                                           *)
(***************************************************************************)
\* connection.network.floatingips.all()
floatingips_all(c) ==
    IF Fails(c) THEN TransportFailure(c, "floatingips.all", <<>>)
    ELSE Logged(c, "floatingips.all", <<>>, TRUE)

\* connection.network.ports.all()
ports_all(c) ==
    IF Fails(c) THEN TransportFailure(c, "ports.all", <<>>)
    ELSE Logged(c, "ports.all", <<>>, TRUE)

\* the machine_id of the dto.ExternalIp: port.device_id
MachineOf(cl, ip) ==
    LET port_id == ById(cl.floatingips, ip).port_id
    IN  IF port_id = None THEN None ELSE ById(cl.ports, port_id).device_id

\* tuple(self._from_api_floatingip(fip, ports) for fip in fips)
RECURSIVE from_api_floatingips(_, _, _, _)
from_api_floatingips(c, fips, ports, items) ==
    IF fips = <<>> THEN [c EXCEPT !.ret = None, !.dto = [items |-> items]]
    ELSE Then(_from_api_floatingip(c, Head(fips), ports), LAMBDA c1 :
         from_api_floatingips(c1, Tail(fips), ports,
             Append(items, [id |-> Head(fips),
                            machine_id |-> MachineOf(c1.cloud, Head(fips))])))

\* mutant: the ports are listed whether or not there is a floating IP
external_ips_always_lists(c) ==
    Then(floatingips_all(c), LAMBDA c1 :
    Then(ports_all(c1), LAMBDA c2 :
    from_api_floatingips(c2, Listing(c2.cloud.floatingips),
                         Ids(c2.cloud.ports), <<>>)))

external_ips(c) ==
    Then(floatingips_all(c), LAMBDA c1 :
    IF Listing(c1.cloud.floatingips) # <<>>
    THEN Then(ports_all(c1), LAMBDA c2 :
         from_api_floatingips(c2, Listing(c2.cloud.floatingips),
                              Ids(c2.cloud.ports), <<>>))
    ELSE from_api_floatingips(c1, <<>>, {}, <<>>))

(***************************************************************************)
(* Machine orchestrator: deletion.                                         *)
(***************************************************************************)
\* connection.network.ports.all(device_id = machine): the call, and the
\* listing it yields
ports_all_by_device(c, device_id) ==
    IF Fails(c) THEN TransportFailure(c, "ports.all", <<device_id>>)
    ELSE Logged(c, "ports.all", <<device_id>>, TRUE)

PortsOf(cl, device_id) == Listing({p \in cl.ports : p.device_id = device_id})

\* port._delete(): the vendor releases a floating IP bound to the port
port_delete(c, id) ==
    IF Fails(c) THEN TransportFailure(c, "port._delete", id)
    ELSE IF id \notin Ids(c.cloud.ports)
    THEN Raise(Logged(c, "port._delete", id, FALSE), "ObjectNotFoundError")
    ELSE [Logged(c, "port._delete", id, TRUE)
            EXCEPT !.cloud.ports = {p \in @ : p.id # id},
                   !.cloud.floatingips =
                      {IF f.port_id = id THEN [f EXCEPT !.port_id = None] ELSE f :
                         f \in @}]

\* connection.compute.servers.delete(id): the vendor deletes in the
\* background; gone tells whether it has finished when the call returns
servers_delete(c, id, gone) ==
    IF Fails(c) THEN TransportFailure(c, "servers.delete", id)
    ELSE IF id \notin Ids(c.cloud.servers)
    THEN Raise(Logged(c, "servers.delete", id, FALSE), "ObjectNotFoundError")
    ELSE [Logged(c, "servers.delete", id, TRUE)
            EXCEPT !.cloud.servers = IF gone THEN {x \in @ : x.id # id} ELSE @]

\* for port in ...: port._delete()
RECURSIVE delete_ports(_, _)
delete_ports(c, ports) ==
    IF ports = <<>> THEN c
    ELSE Then(port_delete(c, Head(ports)), LAMBDA c1 :
         delete_ports(c1, Tail(ports)))

\* mutant: the machine is deleted first, its ports afterwards
delete_machine_ports_last(c, machine, gone) ==
    Then(servers_delete(c, machine, gone), LAMBDA c1 :
    Then(ports_all_by_device(c1, machine), LAMBDA c2 :
    Then(delete_ports(c2, PortsOf(c2.cloud, machine)), LAMBDA c3 :
    NoneIfNotFound(find_machine(c3, machine)))))

\* mutant: a machine that is already gone is an error
delete_machine_strict(c, machine, gone) ==
    Then(ports_all_by_device(c, machine), LAMBDA c1 :
    Then(delete_ports(c1, PortsOf(c1.cloud, machine)), LAMBDA c2 :
    Then(servers_delete(c2, machine, gone), LAMBDA c3 :
    find_machine(c3, machine))))

delete_machine(c, machine, gone) ==
    Then(ports_all_by_device(c, machine), LAMBDA c1 :
    Then(delete_ports(c1, PortsOf(c1.cloud, machine)), LAMBDA c2 :
    Then(servers_delete(c2, machine, gone), LAMBDA c3 :
    NoneIfNotFound(find_machine(c3, machine)))))

(***************************************************************************)
(* Vendor calls on the block-storage service and on volume attachments.    *)
(***************************************************************************)
\* connection.block_store.volumes.get(id, force); a 404 when there is none
volumes_get(c, id, force) ==
    IF Fails(c) THEN TransportFailure(c, "volumes.get", <<id, force>>)
    ELSE IF id \notin Ids(c.cloud.volumes)
    THEN Raise(Logged(c, "volumes.get", <<id, force>>, FALSE), "ObjectNotFoundError")
    ELSE Return(Logged(c, "volumes.get", <<id, force>>, TRUE), id)

\* server.volume_attachments.create(volume_id): the vendor answers 400 for
\* a volume that is not available, and otherwise attaches in the background;
\* settled tells whether it has finished when the call returns
volume_attachments_create(c, server, volume_id, settled) ==
    IF Fails(c) THEN TransportFailure(c, "volume_attachments.create", <<server, volume_id>>)
    ELSE IF \E v \in c.cloud.volumes : v.id = volume_id /\ v.status # "available"
    THEN Raise(Logged(c, "volume_attachments.create", <<server, volume_id>>, FALSE),
               "BadInputError")
    ELSE [Logged(c, "volume_attachments.create", <<server, volume_id>>, TRUE)
            EXCEPT !.cloud.volumes =
                {IF v.id # volume_id THEN v
                 ELSE IF settled
                 THEN [v EXCEPT !.status = "in-use",
                                !.attachments = Append(@, [server_id |-> server])]
                 ELSE [v EXCEPT !.status = "attaching"] : v \in @}]

\* connection.block_store.volumes.delete(id): the vendor answers 400 for a
\* volume that is attached or in transition, and otherwise deletes in the
\* background; gone tells whether it has finished when the call returns
volumes_delete(c, id, gone) ==
    IF Fails(c) THEN TransportFailure(c, "volumes.delete", id)
    ELSE IF id \notin Ids(c.cloud.volumes)
    THEN Raise(Logged(c, "volumes.delete", id, FALSE), "ObjectNotFoundError")
    ELSE IF ById(c.cloud.volumes, id).status \in
                {"creating", "reserved", "attaching", "detaching", "in-use",
                 "IN-USE", "deleting", "maintenance"}
    THEN Raise(Logged(c, "volumes.delete", id, FALSE), "BadInputError")
    ELSE [Logged(c, "volumes.delete", id, TRUE)
            EXCEPT !.cloud.volumes =
                IF gone THEN {v \in @ : v.id # id}
                ELSE {IF v.id = id THEN [v EXCEPT !.status = "deleting"] ELSE v :
                        v \in @}]

(***************************************************************************)
(* Resource translator: volumes.                                           *)
(***************************************************************************)
\* str.lower() on the status strings of the model
Lower(status) ==
    CASE status = "Available" -> "available"
      [] status = "IN-USE" -> "in-use"
      [] status = "True" -> "true"
      [] status = "False" -> "false"
      [] status \in {"Exceeded", "EXCEEDED"} -> "exceeded"
      [] status = "ExceedsAvailableQuota" -> "exceedsavailablequota"
      [] status = "Quota " -> "quota "
      [] status = "Quota exceeded" -> "quota exceeded"
      [] status = "FloatingIP" -> "floatingip"
      [] status = "Instance" -> "instance"
      [] OTHER -> status

_VOLUME_STATUSES ==
    [creating |-> "CREATING", available |-> "AVAILABLE", reserved |-> "ATTACHING",
     attaching |-> "ATTACHING", detaching |-> "DETACHING", deleting |-> "DELETING",
     error |-> "ERROR", error_deleting |-> "ERROR", error_restoring |-> "ERROR",
     error_extending |-> "ERROR"]
    @@ ("in-use" :> "IN_USE") @@ ("error_backing-up" :> "ERROR")

\* mutant: the status is looked up as the vendor spells it
_from_api_volume_case_sensitive(api_volume) ==
    [id |-> api_volume.id,
     status |-> IF api_volume.status \in DOMAIN _VOLUME_STATUSES
                THEN _VOLUME_STATUSES[api_volume.status]
                ELSE "OTHER",
     machine_id |-> IF Len(api_volume.attachments) >= 1
                    THEN api_volume.attachments[1].server_id
                    ELSE None]

_from_api_volume(api_volume) ==
    LET status == IF Lower(api_volume.status) \in DOMAIN _VOLUME_STATUSES
                  THEN _VOLUME_STATUSES[Lower(api_volume.status)]
                  ELSE "OTHER"
        attached == Len(api_volume.attachments) >= 1
    IN  [id |-> api_volume.id,
         status |-> status,
         machine_id |-> IF attached THEN api_volume.attachments[1].server_id
                        ELSE None]

(***************************************************************************)
(* Volume manager.                                                         *)
(***************************************************************************)
find_volume(c, id) ==
    Then(volumes_get(c, id, FALSE), LAMBDA c1 :
    [c1 EXCEPT !.dto = _from_api_volume(ById(c1.cloud.volumes, id))])

\* mutant: the status is checked before the attachment to the machine
attach_volume_status_first(c, volume, machine, settled) ==
    Then(IF volume.kind = "dto" THEN [c EXCEPT !.dto = volume.dto]
         ELSE find_volume(c, volume.id), LAMBDA c1 :
    IF c1.dto.status # "AVAILABLE" THEN Raise(c1, "InvalidOperationError")
    ELSE IF c1.dto.machine_id = machine THEN c1
    ELSE
    Then(servers_get(c1, machine), LAMBDA c2 :
    Then(volume_attachments_create(c2, machine, c1.dto.id, settled), LAMBDA c3 :
    Then(volumes_get(c3, c1.dto.id, TRUE), LAMBDA c4 :
    find_volume(c4, c1.dto.id)))))

\* mutant: a volume in use elsewhere is attached as well
attach_volume_from_in_use(c, volume, machine, settled) ==
    Then(IF volume.kind = "dto" THEN [c EXCEPT !.dto = volume.dto]
         ELSE find_volume(c, volume.id), LAMBDA c1 :
    IF c1.dto.machine_id = machine THEN c1
    ELSE IF c1.dto.status \notin {"AVAILABLE", "IN_USE"}
    THEN Raise(c1, "InvalidOperationError")
    ELSE
    Then(servers_get(c1, machine), LAMBDA c2 :
    Then(volume_attachments_create(c2, machine, c1.dto.id, settled), LAMBDA c3 :
    Then(volumes_get(c3, c1.dto.id, TRUE), LAMBDA c4 :
    find_volume(c4, c1.dto.id)))))

\* volume: [kind |-> "id", id |-> ...] or [kind |-> "dto", dto |-> ...]
attach_volume(c, volume, machine, settled) ==
    Then(IF volume.kind = "dto" THEN [c EXCEPT !.dto = volume.dto]
         ELSE find_volume(c, volume.id), LAMBDA c1 :
    IF c1.dto.machine_id = machine THEN c1
    ELSE IF c1.dto.status # "AVAILABLE" THEN Raise(c1, "InvalidOperationError")
    ELSE
    Then(servers_get(c1, machine), LAMBDA c2 :
    Then(volume_attachments_create(c2, machine, c1.dto.id, settled), LAMBDA c3 :
    Then(volumes_get(c3, c1.dto.id, TRUE), LAMBDA c4 :
    find_volume(c4, c1.dto.id)))))

\* mutant: a volume in use is deleted as well
delete_volume_from_in_use(c, volume, gone) ==
    Then(IF volume.kind = "dto" THEN [c EXCEPT !.dto = volume.dto]
         ELSE find_volume(c, volume.id), LAMBDA c1 :
    IF c1.dto.status \notin {"AVAILABLE", "ERROR", "IN_USE"}
    THEN Raise(c1, "InvalidOperationError")
    ELSE
    Then(volumes_delete(c1, c1.dto.id, gone), LAMBDA c2 :
    NoneIfNotFound(find_volume(c2, c1.dto.id))))

delete_volume(c, volume, gone) ==
    Then(IF volume.kind = "dto" THEN [c EXCEPT !.dto = volume.dto]
         ELSE find_volume(c, volume.id), LAMBDA c1 :
    IF c1.dto.status \notin {"AVAILABLE", "ERROR"}
    THEN Raise(c1, "InvalidOperationError")
    ELSE
    Then(volumes_delete(c1, c1.dto.id, gone), LAMBDA c2 :
    NoneIfNotFound(find_volume(c2, c1.dto.id))))

(***************************************************************************)
(* Vendor calls on the container-orchestration service.                    *)
(***************************************************************************)
\* a worker count that is not supplied (None)
NoCount == -1

\* connection.coe.cluster_templates.get(id)
cluster_templates_get(c, id) ==
    IF Fails(c) THEN TransportFailure(c, "cluster_templates.get", id)
    ELSE IF id \notin Ids(c.cloud.cluster_templates)
    THEN Raise(Logged(c, "cluster_templates.get", id, FALSE), "ObjectNotFoundError")
    ELSE Return(Logged(c, "cluster_templates.get", id, TRUE), id)

\* connection.coe.clusters.get(id)
clusters_get(c, id) ==
    IF Fails(c) THEN TransportFailure(c, "clusters.get", id)
    ELSE IF id \notin Ids(c.cloud.clusters)
    THEN Raise(Logged(c, "clusters.get", id, FALSE), "ObjectNotFoundError")
    ELSE Return(Logged(c, "clusters.get", id, TRUE), id)

\* connection.coe.clusters.delete(id): the vendor deletes in the background
\* and does not change the status straight away; gone tells whether the
\* cluster has disappeared when the call returns
clusters_delete(c, id, gone) ==
    IF Fails(c) THEN TransportFailure(c, "clusters.delete", id)
    ELSE IF id \notin Ids(c.cloud.clusters)
    THEN Raise(Logged(c, "clusters.delete", id, FALSE), "ObjectNotFoundError")
    ELSE [Logged(c, "clusters.delete", id, TRUE)
            EXCEPT !.cloud.clusters = IF gone THEN {x \in @ : x.id # id} ELSE @]

\* connection.coe.clusters.create(**params): the vendor registers the
\* cluster and builds it in the background; a count that is not supplied is
\* the vendor's default of one node
clusters_create(c, params) ==
    IF Fails(c) THEN TransportFailure(c, "clusters.create", params)
    ELSE IF params.cluster_template_id \notin Ids(c.cloud.cluster_templates)
    THEN Raise(Logged(c, "clusters.create", params, FALSE), "ObjectNotFoundError")
    ELSE LET id == NextId(c.cloud.clusters)
         IN  Return([Logged(c, "clusters.create", params, TRUE)
                       EXCEPT !.cloud.clusters = @ \cup
                          {[id |-> id,
                            cluster_template_id |-> params.cluster_template_id,
                            status |-> "CREATE_IN_PROGRESS",
                            api_address |-> "",
                            node_count |-> IF params.node_count = NoCount
                                           THEN 1 ELSE params.node_count]}],
                    id)

\* connection.coe.certificates.create(cluster_uuid, csr)
certificates_create(c, id) ==
    IF Fails(c) THEN TransportFailure(c, "certificates.create", id)
    ELSE IF id \notin Ids(c.cloud.clusters)
    THEN Raise(Logged(c, "certificates.create", id, FALSE), "ObjectNotFoundError")
    ELSE Logged(c, "certificates.create", id, TRUE)

\* connection.coe.certificates.get(id)
certificates_get(c, id) ==
    IF Fails(c) THEN TransportFailure(c, "certificates.get", id)
    ELSE IF id \notin Ids(c.cloud.clusters)
    THEN Raise(Logged(c, "certificates.get", id, FALSE), "ObjectNotFoundError")
    ELSE Logged(c, "certificates.get", id, TRUE)

\* connection.compute.flavors.all()
flavors_all(c) ==
    IF Fails(c) THEN TransportFailure(c, "flavors.all", <<>>)
    ELSE Logged(c, "flavors.all", <<>>, TRUE)

(***************************************************************************)
(* Kubernetes cluster orchestrator.                                        *)
(***************************************************************************)
\* the members of dto.KubernetesClusterStatus: the vendor lifecycle states
KubernetesClusterStatus ==
    {"CREATE_IN_PROGRESS", "CREATE_COMPLETE", "CREATE_FAILED",
     "UPDATE_IN_PROGRESS", "UPDATE_COMPLETE", "UPDATE_FAILED",
     "DELETE_IN_PROGRESS", "DELETE_COMPLETE", "DELETE_FAILED"}

\* flavors is None: the flavor index is fetched; dto.KubernetesClusterStatus(
\* api_cluster.status) is a ValueError for a string that is no member
_from_api_coe_cluster(c, api_cluster) ==
    Then(flavors_all(c), LAMBDA c1 :
    IF api_cluster.status \notin KubernetesClusterStatus
    THEN Raise(c1, "ValueError")
    ELSE [c1 EXCEPT !.dto = [id |-> api_cluster.id,
                             status |-> api_cluster.status,
                             api_address |-> api_cluster.api_address,
                             worker_count |-> api_cluster.node_count]])

\* cluster.cluster_template is fetched when its coe is read
find_kubernetes_cluster(c, id) ==
    Then(clusters_get(c, id), LAMBDA c1 :
    Then(cluster_templates_get(c1, ById(c1.cloud.clusters, id).cluster_template_id),
         LAMBDA c2 :
    IF ById(c2.cloud.cluster_templates, c2.ret).coe # "kubernetes"
    THEN Raise(c2, "ObjectNotFoundError")
    ELSE _from_api_coe_cluster(c2, ById(c2.cloud.clusters, id))))

\* mutant: the record is returned with the status the vendor reports
delete_kubernetes_cluster_as_found(c, cluster, gone) ==
    Then(clusters_delete(c, cluster, gone), LAMBDA c1 :
    NoneIfNotFound(find_kubernetes_cluster(c1, cluster)))

\* cluster: the id (of the DTO, when a DTO is handed in)
delete_kubernetes_cluster(c, cluster, gone) ==
    Then(clusters_delete(c, cluster, gone), LAMBDA c1 :
    NoneIfNotFound(
        Then(find_kubernetes_cluster(c1, cluster), LAMBDA c2 :
        [c2 EXCEPT !.dto.status = "DELETE_IN_PROGRESS"])))

\* labels.get("monitoring_enabled", "False").lower() == "true"
_from_api_coe_cluster_template(template) ==
    [id |-> template.id,
     monitoring_enabled |->
        Lower(IF "monitoring_enabled" \in DOMAIN template.labels
              THEN template.labels.monitoring_enabled ELSE "False") = "true"]

find_kubernetes_cluster_template(c, id) ==
    Then(cluster_templates_get(c, id), LAMBDA c1 :
    IF ById(c1.cloud.cluster_templates, id).coe # "kubernetes"
    THEN Raise(c1, "ObjectNotFoundError")
    ELSE [c1 EXCEPT !.dto =
            _from_api_coe_cluster_template(ById(c1.cloud.cluster_templates, id))])

\* worker_count or min_worker_count: the right operand when the left is
\* None or 0
Or(left, right) == IF left \in {NoCount, 0} THEN right ELSE left

\* str(auto_scaling_enabled)
Str(flag) == IF flag THEN "True" ELSE "False"

\* params of clusters.create; the Grafana password is random.choices
create_kubernetes_cluster_params(template, worker_count, min_worker_count, max_worker_count, auto_scaling_enabled) ==
    [cluster_template_id |-> template.id,
     node_count |-> Or(worker_count, min_worker_count),
     labels |-> [auto_scaling_enabled |-> Lower(Str(auto_scaling_enabled))]
                @@ (IF auto_scaling_enabled
                    THEN [min_node_count |-> min_worker_count,
                          max_node_count |-> max_worker_count]
                    ELSE <<>>)
                @@ (IF template.monitoring_enabled
                    THEN [grafana_admin_password |-> "random"]
                    ELSE <<>>)]

create_kubernetes_cluster(c, template_id, worker_count, min_worker_count, max_worker_count, auto_scaling_enabled, ssh_key) ==
    Then(find_kubernetes_cluster_template(c, template_id), LAMBDA c1 :
    Then(IF ssh_key # NoKey
         THEN _get_or_create_keypair([c1 EXCEPT !.drawn = c1.dto.monitoring_enabled],
                                     ssh_key)
         ELSE [c1 EXCEPT !.drawn = c1.dto.monitoring_enabled], LAMBDA c2 :
    Then(clusters_create(c2,
            create_kubernetes_cluster_params(c1.dto, worker_count,
                min_worker_count, max_worker_count, auto_scaling_enabled)
            @@ (IF ssh_key # NoKey THEN [keypair |-> KeyName(ssh_key)] ELSE <<>>)),
         LAMBDA c3 :
    _from_api_coe_cluster(c3, ById(c3.cloud.clusters, c3.ret)))))

\* mutant: the CSR is signed before the API address is looked at
generate_kubeconfig_sign_first(c, cluster) ==
    Then(IF cluster.kind = "dto" THEN [c EXCEPT !.dto = cluster.dto]
         ELSE find_kubernetes_cluster(c, cluster.id), LAMBDA c1 :
    Then(certificates_create([c1 EXCEPT !.drawn = TRUE], c1.dto.id), LAMBDA c2 :
    IF ~Truthy(c1.dto.api_address)
    THEN Raise(c2, "InvalidOperationError")
    ELSE
    Then(certificates_get(c2, c1.dto.id), LAMBDA c3 :
    [c3 EXCEPT !.dto = [id |-> c1.dto.id, server |-> c1.dto.api_address]])))

\* cluster: a DTO or an id; _generate_csr_and_key makes a random key (drawn);
\* the kubeconfig returned names the cluster and its API server
generate_kubeconfig_for_kubernetes_cluster(c, cluster) ==
    Then(IF cluster.kind = "dto" THEN [c EXCEPT !.dto = cluster.dto]
         ELSE find_kubernetes_cluster(c, cluster.id), LAMBDA c1 :
    IF ~Truthy(c1.dto.api_address)
    THEN Raise(c1, "InvalidOperationError")
    ELSE
    Then(certificates_create([c1 EXCEPT !.drawn = TRUE], c1.dto.id), LAMBDA c2 :
    Then(certificates_get(c2, c1.dto.id), LAMBDA c3 :
    [c3 EXCEPT !.dto = [id |-> c1.dto.id, server |-> c1.dto.api_address]])))

(***************************************************************************)
(* Error translation.  A message is the sequence of its fragments; a       *)
(* failure is what a vendor call raised: a rackit.ApiError with a status   *)
(* code, another rackit.RackitError (no status code), or                   *)
(* api.ServiceNotSupported.                                                *)
(***************************************************************************)
NoStatus == 0

_REPLACEMENTS ==
    <<<<"instance", "machine">>, <<"Instance", "Machine">>,
      <<"flavorRef", "size">>, <<"flavor", "size">>, <<"Flavor", "Size">>>>

\* a.replace(x[0], x[1])
Replace(message, x) ==
    [i \in DOMAIN message |-> IF message[i] = x[1] THEN x[2] ELSE message[i]]

RECURSIVE Reduce(_, _)
Reduce(replacements, message) ==
    IF replacements = <<>> THEN message
    ELSE Reduce(Tail(replacements), Replace(message, Head(replacements)))

_replace_resource_names(message) == Reduce(_REPLACEMENTS, message)

\* word in message.lower()
InLower(word, message) == \E i \in DOMAIN message : Lower(message[i]) = word

QuotaMessage ==
    <<"Requested operation would exceed at least one quota. ",
      "Please check your tenancy quotas.">>

\* mutant: the keyword is looked for in the message as it is spelled
convert_exceptions_case_sensitive(exc) ==
    LET message == _replace_resource_names(exc.message)
        has(word) == \E i \in DOMAIN message : message[i] = word
    IN  IF exc.kind = "ServiceNotSupported"
        THEN [err |-> "UnsupportedOperationError", message |-> exc.message]
        ELSE IF exc.kind = "ApiError"
        THEN CASE exc.status_code = 400 ->
                    [err |-> "BadInputError", message |-> message]
               [] exc.status_code = 401 ->
                    [err |-> "AuthenticationError",
                     message |-> <<"Your session has expired.">>]
               [] exc.status_code = 403 ->
                    IF has("exceeded")
                    THEN [err |-> "QuotaExceededError", message |-> QuotaMessage]
                    ELSE [err |-> "PermissionDeniedError",
                          message |-> <<"Permission denied.">>]
               [] exc.status_code = 404 ->
                    [err |-> "ObjectNotFoundError", message |-> message]
               [] exc.status_code = 409 ->
                    IF has("exceeded")
                    THEN [err |-> "QuotaExceededError", message |-> QuotaMessage]
                    ELSE [err |-> "InvalidOperationError", message |-> message]
               [] exc.status_code = 413 ->
                    IF has("exceedsavailablequota")
                    THEN [err |-> "QuotaExceededError", message |-> QuotaMessage]
                    ELSE [err |-> "CommunicationError",
                          message |-> <<"Unknown error with OpenStack API.">>]
               [] OTHER ->
                    [err |-> "CommunicationError",
                     message |-> <<"Unknown error with OpenStack API.">>]
        ELSE [err |-> "CommunicationError",
              message |-> <<"Could not connect to OpenStack API.">>]

\* the error raised in place of exc
convert_exceptions(exc) ==
    LET message == _replace_resource_names(exc.message)
    IN  IF exc.kind = "ServiceNotSupported"
        THEN [err |-> "UnsupportedOperationError", message |-> exc.message]
        ELSE IF exc.kind = "ApiError"
        THEN CASE exc.status_code = 400 ->
                    [err |-> "BadInputError", message |-> message]
               [] exc.status_code = 401 ->
                    [err |-> "AuthenticationError",
                     message |-> <<"Your session has expired.">>]
               [] exc.status_code = 403 ->
                    IF InLower("exceeded", message)
                    THEN [err |-> "QuotaExceededError", message |-> QuotaMessage]
                    ELSE [err |-> "PermissionDeniedError",
                          message |-> <<"Permission denied.">>]
               [] exc.status_code = 404 ->
                    [err |-> "ObjectNotFoundError", message |-> message]
               [] exc.status_code = 409 ->
                    IF InLower("exceeded", message)
                    THEN [err |-> "QuotaExceededError", message |-> QuotaMessage]
                    ELSE [err |-> "InvalidOperationError", message |-> message]
               [] exc.status_code = 413 ->
                    IF InLower("exceedsavailablequota", message)
                    THEN [err |-> "QuotaExceededError", message |-> QuotaMessage]
                    ELSE [err |-> "CommunicationError",
                          message |-> <<"Unknown error with OpenStack API.">>]
               [] OTHER ->
                    [err |-> "CommunicationError",
                     message |-> <<"Unknown error with OpenStack API.">>]
        ELSE [err |-> "CommunicationError",
              message |-> <<"Could not connect to OpenStack API.">>]

(***************************************************************************)
(* The cluster engine.  A session is configured with no engine or with     *)
(* one; an engine's create_manager gives a manager or nothing for the      *)
(* tenancy.  The session's _cluster_manager attribute is unset until the   *)
(* first access.  An invocation that may set it carries the session in     *)
(* self.  cloud.engine holds the clusters the engine manages and counts    *)
(* the managers it created and closed.                                     *)
(***************************************************************************)
NoEngine == [configured |-> FALSE, manages |-> FALSE]

Unset == "unset"
NoManager == "None"
Manager == "manager"

NoMessage == <<>>

BeginSelf(cl, self, fail) ==
    [cloud |-> cl, log |-> <<>>, fail |-> fail, err |-> NoError, ret |-> None,
     dto |-> NoDto, drawn |-> FALSE, self |-> self]

\* self._cluster_engine.create_manager(self._username, self._tenancy)
create_manager(c) ==
    [c EXCEPT !.cloud.engine.managers = @ + 1,
              !.self._cluster_manager =
                  IF c.self._cluster_engine.manages THEN Manager ELSE NoManager]

\* mutant: the manager is asked for from the engine on every access
cluster_manager_uncached(c) ==
    LET c1 == IF c.self._cluster_engine.configured
              THEN create_manager(c)
              ELSE [c EXCEPT !.self._cluster_manager = NoManager]
    IN  IF c1.self._cluster_manager = NoManager
        THEN Raise(c1, "UnsupportedOperationError")
        ELSE c1

\* the cluster_manager property
cluster_manager(c) ==
    LET c1 == IF c.self._cluster_manager = Unset
              THEN IF c.self._cluster_engine.configured
                   THEN create_manager(c)
                   ELSE [c EXCEPT !.self._cluster_manager = NoManager]
              ELSE c
    IN  IF c1.self._cluster_manager = NoManager
        THEN Raise(c1, "UnsupportedOperationError")
        ELSE c1

\* manager.clusters()
manager_clusters(c) ==
    IF Fails(c) THEN TransportFailure(c, "manager.clusters", <<>>)
    ELSE [Logged(c, "manager.clusters", <<>>, TRUE)
             EXCEPT !.dto = [items |-> c.cloud.engine.clusters]]

\* manager.find_cluster(id)
manager_find_cluster(c, id) ==
    IF Fails(c) THEN TransportFailure(c, "manager.find_cluster", id)
    ELSE IF id \in Ids(c.cloud.engine.clusters)
    THEN [Logged(c, "manager.find_cluster", id, TRUE)
             EXCEPT !.dto = ById(c.cloud.engine.clusters, id)]
    ELSE Raise(Logged(c, "manager.find_cluster", id, FALSE), "ObjectNotFoundError")

\* manager.create_cluster(name, cluster_type, params, ssh_key, credential)
manager_create_cluster(c, name, cluster_type, params) ==
    IF Fails(c) THEN TransportFailure(c, "manager.create_cluster", name)
    ELSE LET cluster == [id |-> NextId(c.cloud.engine.clusters), name |-> name,
                         cluster_type |-> cluster_type,
                         parameter_values |-> params, tags |-> <<>>,
                         error_message |-> NoMessage]
         IN  [Logged(c, "manager.create_cluster", name, TRUE)
                 EXCEPT !.cloud.engine.clusters = @ \cup {cluster},
                        !.dto = cluster]

\* manager.update_cluster(cluster, params, credential)
manager_update_cluster(c, id, params) ==
    IF Fails(c) THEN TransportFailure(c, "manager.update_cluster", id)
    ELSE IF id \in Ids(c.cloud.engine.clusters)
    THEN LET old == ById(c.cloud.engine.clusters, id)
             new == [old EXCEPT !.parameter_values = params @@ @]
         IN  [Logged(c, "manager.update_cluster", id, TRUE)
                 EXCEPT !.cloud.engine.clusters = (@ \ {old}) \cup {new},
                        !.dto = new]
    ELSE Raise(Logged(c, "manager.update_cluster", id, FALSE), "ObjectNotFoundError")

\* manager.patch_cluster(cluster, credential)
manager_patch_cluster(c, id) ==
    IF Fails(c) THEN TransportFailure(c, "manager.patch_cluster", id)
    ELSE IF id \in Ids(c.cloud.engine.clusters)
    THEN [Logged(c, "manager.patch_cluster", id, TRUE)
             EXCEPT !.dto = ById(c.cloud.engine.clusters, id)]
    ELSE Raise(Logged(c, "manager.patch_cluster", id, FALSE), "ObjectNotFoundError")

\* manager.delete_cluster(cluster, credential)
manager_delete_cluster(c, id) ==
    IF Fails(c) THEN TransportFailure(c, "manager.delete_cluster", id)
    ELSE IF id \in Ids(c.cloud.engine.clusters)
    THEN LET old == ById(c.cloud.engine.clusters, id)
         IN  [Logged(c, "manager.delete_cluster", id, TRUE)
                 EXCEPT !.cloud.engine.clusters = @ \ {old}, !.dto = old]
    ELSE Raise(Logged(c, "manager.delete_cluster", id, FALSE), "ObjectNotFoundError")

\* manager.close()
manager_close(c) == [c EXCEPT !.cloud.engine.closed = @ + 1]

\* self._connection.close()
connection_close(c) == [c EXCEPT !.cloud.connection_closed = @ + 1]

\* connection.orchestration.stacks.find_by_stack_name(name); rackit.NotFound
\* is caught by the caller
stacks_find_by_stack_name(c, name) ==
    IF Fails(c) THEN TransportFailure(c, "stacks.find_by_stack_name", name)
    ELSE Return(Logged(c, "stacks.find_by_stack_name", name, TRUE),
                FirstId({k \in c.cloud.stacks : k.stack_name = name}))

\* the parameters a caller gave, as the engine accepts them
validate_cluster_params(params) == params

\* the error message a fixed-up cluster carries
FixedUpError(error_message) ==
    IF InLower("quota exceeded", error_message)
       \/ InLower("exceedsavailablequota", error_message)
    THEN IF InLower("floatingip", error_message)
         THEN <<"Could not find an external IP for deployment. ",
                "Please ensure an external IP is available and try again.">>
         ELSE <<"Requested resources exceed at least one quota. ",
                "Please check your tenancy quotas and try again.">>
    ELSE IF error_message # NoMessage
    THEN <<"Error during cluster configuration. ", "Please contact support.">>
    ELSE NoMessage

_fixup_cluster(c, cluster) ==
    LET params == [k \in DOMAIN cluster.parameter_values \ {"cluster_network"} |->
                      cluster.parameter_values[k]]
    IN  Then(stacks_find_by_stack_name(c, cluster.name), LAMBDA c1 :
        LET stack_tags == IF c1.ret = None THEN <<>>
                          ELSE ById(c1.cloud.stacks, c1.ret).tags
        IN  [c1 EXCEPT !.ret = None,
                       !.dto = [cluster EXCEPT
                                   !.parameter_values = params,
                                   !.tags = @ \o stack_tags,
                                   !.error_message = FixedUpError(@)]])

\* tuple(self._fixup_cluster(c) for c in ...), in the order of the listing
RECURSIVE FixupEach(_, _, _)
FixupEach(c, todo, done) ==
    IF todo = {} THEN [c EXCEPT !.ret = None, !.dto = [items |-> done]]
    ELSE LET cluster == ById(todo, Min(Ids(todo)))
         IN  Then(_fixup_cluster(c, cluster), LAMBDA c1 :
             FixupEach(c1, todo \ {cluster}, done \cup {c1.dto}))

clusters(c) ==
    Then(cluster_manager(c), LAMBDA c1 :
    Then(manager_clusters(c1), LAMBDA c2 :
    FixupEach(c2, c2.dto.items, {})))

find_cluster(c, id) ==
    Then(cluster_manager(c), LAMBDA c1 :
    Then(manager_find_cluster(c1, id), LAMBDA c2 :
    _fixup_cluster(c2, c2.dto)))

create_cluster(c, name, cluster_type, params) ==
    Then(_external_network(c), LAMBDA c1 :
    Then(_tenant_network(c1, TRUE), LAMBDA c2 :
    LET injected ==
           ("cluster_floating_network" :> ById(c2.cloud.networks, c1.ret).name)
           @@ ("cluster_network" :> ById(c2.cloud.networks, c2.ret).name)
           @@ validate_cluster_params(params)
    IN  Then(cluster_manager(c2), LAMBDA c3 :
        Then(manager_create_cluster(c3, name, cluster_type, injected), LAMBDA c4 :
        _fixup_cluster(c4, c4.dto)))))

update_cluster(c, cluster, params) ==
    Then(find_cluster(c, cluster), LAMBDA c1 :
    Then(cluster_manager(c1), LAMBDA c2 :
    Then(manager_update_cluster(c2, c1.dto.id, validate_cluster_params(params)),
         LAMBDA c3 :
    _fixup_cluster(c3, c3.dto))))

patch_cluster(c, cluster) ==
    Then(cluster_manager(c), LAMBDA c1 :
    Then(manager_patch_cluster(c1, cluster), LAMBDA c2 :
    _fixup_cluster(c2, c2.dto)))

delete_cluster(c, cluster) ==
    Then(cluster_manager(c), LAMBDA c1 :
    Then(manager_delete_cluster(c1, cluster), LAMBDA c2 :
    _fixup_cluster(c2, c2.dto)))

close(c) ==
    LET c1 == connection_close(c)
    IN  IF c1.self._cluster_manager = Manager THEN manager_close(c1) ELSE c1

(***************************************************************************)
(* The record of a completed call.                                         *)
(***************************************************************************)
Done(op, arg, pre, c) ==
    [op |-> op, arg |-> arg, pre |-> pre, log |-> c.log, fail |-> c.fail,
     err |-> c.err, ret |-> c.ret, dto |-> c.dto, drawn |-> c.drawn]

NoCall ==
    [op |-> "none", arg |-> <<>>, pre |-> cloud, log |-> <<>>, fail |-> 0,
     err |-> NoError, ret |-> None, dto |-> NoDto, drawn |-> FALSE]

(***************************************************************************)
(* The images of the tenancy and the image arguments of create_machine.    *)
(***************************************************************************)
ImageCatalogue ==
    { [id |-> 1, data |-> (<<"os_distro">> :> "centos")],
      [id |-> 2, data |-> (<<"portal_", "private_if">> :> "1")],
      [id |-> 3, data |-> (<<"portal_", "portal_", "private_if">> :> "1")] }

MissingImage == NextId(ImageCatalogue)

ImageRefs ==
    {[kind |-> "id", id |-> i] : i \in {2, 3, MissingImage}}
    \cup {[kind |-> "dto",
           dto |-> [id |-> 1, metadata |-> (<<"portal_", "private_if">> :> "1")]]}

(***************************************************************************)
(* Actions: one call of a method on the scoped session.                    *)
(***************************************************************************)
TenantNetwork ==
    \E create_network \in BOOLEAN, fail \in 0..MaxCalls :
        LET c == _tenant_network(Begin(cloud, fail), create_network)
        IN  /\ Cardinality(c.cloud.networks) <= MaxNetworks
            /\ fail <= Len(c.log)
            /\ cloud' = c.cloud
            /\ last' = Done("_tenant_network", <<create_network>>, cloud, c)
            /\ UNCHANGED <<session, calls>>

ExternalNetwork ==
    \E fail \in 0..MaxCalls :
        LET c == _external_network(Begin(cloud, fail))
        IN  /\ fail <= Len(c.log)
            /\ cloud' = c.cloud
            /\ last' = Done("_external_network", <<>>, cloud, c)
            /\ UNCHANGED <<session, calls>>

\* the keys users hand in: AliceKey with two comments, a key whose digest
\* starts with the same 8 characters as AliceKey's, and a fourth key
AliceKey ==
    <<"ssh-ed25519",
      "AAAAC3NzaC1lZDI1NTE5AAAAIFw1EQ8PV503e0hpf4FnolRs9ODf7GtnNvdxKLsjA/8/",
      "alice@laptop">>

SshKeys ==
    {AliceKey,
     [AliceKey EXCEPT ![3] = "alice@desktop"],
     <<"ssh-ed25519",
       "AAAAC3NzaC1lZDI1NTE5AAAAIJlf6dPofRjtMTZEiBAfsNEw/l2P1gFGT0bBbVlsVurX",
       "alice@laptop">>,
     <<"ssh-ed25519",
       "AAAAC3NzaC1lZDI1NTE5AAAAINdTHzRaobEeGzqM8VHLdLBz+6BJ/G8zFXzPxrDlTrtd",
       "alice@laptop">>}

\* the counts of a cluster-creation request as the signature defaults them
DefaultClusterRequest ==
    [worker_count |-> NoCount, min_worker_count |-> NoCount,
     max_worker_count |-> NoCount, auto_scaling_enabled |-> FALSE]

CreateMachine ==
    \E image \in ImageRefs, ssh_key \in {NoKey, session.ssh_key}, fail \in 0..MaxCalls,
       zone \in DOMAIN session.az_backdoor_net_map \cup {""} :
        LET c == create_machine(Begin(cloud, fail), image, ssh_key, zone)
        IN  /\ (zone = "") = ~c.drawn
            /\ Cardinality(c.cloud.networks) <= MaxNetworks
            /\ Cardinality(cloud.ports) < MaxPorts
            /\ Cardinality(cloud.servers) < MaxServers
            /\ fail <= Len(c.log)
            /\ cloud' = c.cloud
            /\ last' = Done("create_machine",
                            <<image, ssh_key, zone>>, cloud, c)
            /\ UNCHANGED <<session, calls>>

(***************************************************************************)
(* Initial states: the tenancy as the session finds it.                    *)
(***************************************************************************)
Net(id, name, tags, external, shared) ==
    [id |-> id, name |-> name, tags |-> tags, external |-> external,
     shared |-> shared]

NetworkCatalogue ==
    { Net(1, <<"t1", "-net">>, {}, FALSE, FALSE),
      Net(2, <<"tagged-int">>, {RoleTag("internal")}, FALSE, FALSE),
      Net(3, <<"t1", "-ext">>, {}, TRUE, FALSE),
      Net(4, <<"tagged-ext">>, {RoleTag("external")}, TRUE, TRUE),
      Net(5, <<"public">>, {}, TRUE, TRUE) }

InternalTemplates == {NoTemplate, <<"{tenant_name}", "-net">>}
ExternalTemplates == {NoTemplate, <<"{tenant_name}", "-ext">>}

\* zone |-> id of the backdoor network of the zone
NoAzMap == [z \in {} |-> None]

AzMaps == {NoAzMap, [z \in {"az1", "nova"} |-> IF z = "nova" THEN 8 ELSE 9]}

EmptyCloud ==
    [networks |-> {}, subnets |-> {}, ports |-> {}, floatingips |-> {},
     servers |-> {}, keypairs |-> {}, images |-> ImageCatalogue, volumes |-> {},
     cluster_templates |-> {}, clusters |-> {}, stacks |-> {},
     engine |-> [clusters |-> {}, managers |-> 0, closed |-> 0],
     connection_closed |-> 0]

Sessions(internal, external, az_maps) ==
    [username : {<<"alice", ".", "b">>},
     tenancy : {"t1"},
     metadata_prefix : {"portal_"},
     internal_net_template : internal,
     external_net_template : external,
     internal_net_cidr : {"192.168.3.0/24"},
     az_backdoor_net_map : az_maps,
     backdoor_vnic_type : {"direct"},
     ssh_key : {AliceKey},
     cluster_request : {DefaultClusterRequest},
     _cluster_engine : {NoEngine},
     _cluster_manager : {Unset}]

(***************************************************************************)
(* Spec: the network resolver, over every set of networks of the           *)
(* catalogue and every configuration of the two templates.                 *)
(***************************************************************************)
Init ==
    /\ session \in Sessions(InternalTemplates, ExternalTemplates, {NoAzMap})
    /\ \E nets \in SUBSET NetworkCatalogue :
          cloud = [EmptyCloud EXCEPT !.networks = nets]
    /\ last = NoCall
    /\ calls = NoCalls

Next == TenantNetwork \/ ExternalNetwork

Spec == Init /\ [][Next]_vars

(***************************************************************************)
(* SpecMachine: the machine orchestrator, over the internal networks of    *)
(* the catalogue, the internal template and the availability-zone maps.    *)
(***************************************************************************)
InitMachine ==
    /\ session \in Sessions(InternalTemplates, {NoTemplate}, AzMaps)
    /\ \E nets \in SUBSET {n \in NetworkCatalogue : ~n.external} :
          cloud = [EmptyCloud EXCEPT !.networks = nets]
    /\ last = NoCall
    /\ calls = NoCalls

NextMachine == CreateMachine

SpecMachine == InitMachine /\ [][NextMachine]_vars

(***************************************************************************)
(* SpecSequence: create_machine in a tenancy that is configured by tag     *)
(* only and has backdoor networks, with or without its tagged internal     *)
(* network.                                                                *)
(***************************************************************************)
InitSequence ==
    /\ session \in Sessions({NoTemplate}, {NoTemplate}, AzMaps \ {NoAzMap})
    /\ \E nets \in SUBSET {n \in NetworkCatalogue : RoleTag("internal") \in n.tags} :
          cloud = [EmptyCloud EXCEPT !.networks = nets]
    /\ last = NoCall
    /\ calls = NoCalls

SpecSequence == InitSequence /\ [][NextMachine]_vars

(***************************************************************************)
(* SpecIp: the external-IP manager.  Machines 1 and 2 have a port on the   *)
(* tagged network, machine 1 also one on the template-named network,       *)
(* machine 3 has no port; every port starts with at most one floating IP.  *)
(***************************************************************************)
MaxIps == 2
MaxIpCalls == 7

Machines == {1, 2, 3}

Port(id, device_id, network_id) ==
    [id |-> id, device_id |-> device_id, network_id |-> network_id,
     vnic_type |-> "normal"]

PortCatalogue == {Port(1, 1, 2), Port(2, 2, 2), Port(3, 1, 1)}

IpRefs == 1..(MaxIps + 1)

AttachExternalIp ==
    \E ip \in IpRefs, machine \in Machines, fail \in 0..MaxIpCalls :
        LET c == attach_external_ip(Begin(cloud, fail), ip, machine)
        IN  /\ Cardinality(c.cloud.networks) <= MaxNetworks
            /\ fail <= Len(c.log)
            /\ cloud' = c.cloud
            /\ last' = Done("attach_external_ip", <<ip, machine>>, cloud, c)
            /\ UNCHANGED <<session, calls>>

DetachExternalIp ==
    \E ip \in IpRefs, fail \in 0..MaxIpCalls :
        LET c == detach_external_ip(Begin(cloud, fail), ip)
        IN  /\ fail <= Len(c.log)
            /\ cloud' = c.cloud
            /\ last' = Done("detach_external_ip", <<ip>>, cloud, c)
            /\ UNCHANGED <<session, calls>>

InitIp ==
    /\ session \in Sessions(InternalTemplates, {NoTemplate}, {NoAzMap})
    /\ \E nets \in SUBSET {n \in NetworkCatalogue : ~n.external} :
          LET ports == {p \in PortCatalogue : p.network_id \in Ids(nets)}
          IN  \E binding \in [1..MaxIps -> Ids(ports) \cup {None}] :
                /\ \A i, j \in 1..MaxIps :
                      (i # j /\ binding[i] = binding[j]) => binding[i] = None
                /\ cloud = [EmptyCloud EXCEPT
                              !.networks = nets,
                              !.ports = ports,
                              !.floatingips =
                                 {[id |-> i, port_id |-> binding[i]] : i \in 1..MaxIps}]
    /\ last = NoCall
    /\ calls = NoCalls

NextIp == AttachExternalIp \/ DetachExternalIp

SpecIp == InitIp /\ [][NextIp]_vars

(***************************************************************************)
(* SpecList: listing and detaching external IPs, over tenancies with no    *)
(* floating IP, one, or MaxIps of them.                                    *)
(***************************************************************************)
MaxListCalls == 4

ExternalIps ==
    \E fail \in 0..MaxListCalls :
        LET c == external_ips(Begin(cloud, fail))
        IN  /\ fail <= Len(c.log)
            /\ cloud' = c.cloud
            /\ last' = Done("external_ips", <<>>, cloud, c)
            /\ UNCHANGED <<session, calls>>

InitList ==
    /\ session \in Sessions({NoTemplate}, {NoTemplate}, {NoAzMap})
    /\ \E ports \in SUBSET PortCatalogue, n \in 0..MaxIps :
          \E binding \in [1..n -> Ids(ports) \cup {None}] :
             /\ \A i, j \in 1..n :
                   (i # j /\ binding[i] = binding[j]) => binding[i] = None
             /\ cloud = [EmptyCloud EXCEPT
                           !.ports = ports,
                           !.floatingips =
                              {[id |-> i, port_id |-> binding[i]] : i \in 1..n}]
    /\ last = NoCall
    /\ calls = NoCalls

NextList == ExternalIps \/ DetachExternalIp

SpecList == InitList /\ [][NextList]_vars

(***************************************************************************)
(* SpecVol: the volume manager, over one volume in every vendor status     *)
(* with every attachment list to the servers 1 and 2.                      *)
(***************************************************************************)
MaxVolumeCalls == 5
MaxAttachments == 2

VendorStatuses ==
    DOMAIN _VOLUME_STATUSES \cup {"Available", "IN-USE", "maintenance"}

Servers == {[id |-> 1], [id |-> 2]}

\* the attachment lists of at most n entries
RECURSIVE AttachmentLists(_)
AttachmentLists(n) ==
    IF n = 0 THEN {<<>>}
    ELSE AttachmentLists(n - 1) \cup
         {Append(a, [server_id |-> m]) :
            a \in {b \in AttachmentLists(n - 1) : Len(b) = n - 1},
            m \in Ids(Servers)}

VolumeRecords ==
    {[id |-> 1, status |-> st, attachments |-> a] :
        st \in VendorStatuses,
        a \in {b \in AttachmentLists(MaxAttachments) :
                 \A i, j \in DOMAIN b : i # j => b[i] # b[j]}}

MissingVolume == NextId(VolumeRecords)
MissingServer == NextId(Servers)

\* the volume argument: an id, the DTO of the volume as it is now, or a
\* DTO fetched earlier that the vendor state has since left behind
VolumeRefs(cl) ==
    {[kind |-> "id", id |-> i] : i \in {1, MissingVolume}}
    \cup {[kind |-> "dto", dto |-> _from_api_volume(v)] : v \in cl.volumes}
    \cup {[kind |-> "dto", dto |-> d] :
            d \in {[id |-> 1, status |-> "AVAILABLE", machine_id |-> None],
                   [id |-> 1, status |-> "IN_USE", machine_id |-> 1]}}

\* settled is drawn only when the vendor accepts an attachment
AttachVolume ==
    \E volume \in VolumeRefs(cloud), machine \in Ids(Servers) \cup {MissingServer},
       settled \in BOOLEAN, fail \in 0..MaxVolumeCalls :
        LET c == attach_volume(Begin(cloud, fail), volume, machine, settled)
        IN  /\ fail <= Len(c.log)
            /\ settled \/ \E i \in DOMAIN c.log :
                            c.log[i].call = "volume_attachments.create" /\ c.log[i].ok
            /\ \A v \in c.cloud.volumes : Len(v.attachments) <= MaxAttachments
            /\ cloud' = c.cloud
            /\ last' = Done("attach_volume", <<volume, machine, settled>>, cloud, c)
            /\ UNCHANGED <<session, calls>>

\* gone is drawn only when the vendor accepts the delete
DeleteVolume ==
    \E volume \in VolumeRefs(cloud), gone \in BOOLEAN, fail \in 0..MaxVolumeCalls :
        LET c == delete_volume(Begin(cloud, fail), volume, gone)
        IN  /\ fail <= Len(c.log)
            /\ gone \/ \E i \in DOMAIN c.log :
                            c.log[i].call = "volumes.delete" /\ c.log[i].ok
            /\ cloud' = c.cloud
            /\ last' = Done("delete_volume", <<volume, gone>>, cloud, c)
            /\ UNCHANGED <<session, calls>>

FindVolume ==
    \E id \in {1, MissingVolume}, fail \in 0..1 :
        LET c == find_volume(Begin(cloud, fail), id)
        IN  /\ cloud' = c.cloud
            /\ last' = Done("find_volume", <<id>>, cloud, c)
            /\ UNCHANGED <<session, calls>>

InitVol ==
    /\ session \in Sessions({NoTemplate}, {NoTemplate}, {NoAzMap})
    /\ \E v \in VolumeRecords :
          cloud = [EmptyCloud EXCEPT !.volumes = {v}, !.servers = Servers]
    /\ last = NoCall
    /\ calls = NoCalls

NextVol == AttachVolume \/ DeleteVolume \/ FindVolume

SpecVol == InitVol /\ [][NextVol]_vars

(***************************************************************************)
(* SpecDelete: the three delete operations, each over a tenancy that holds *)
(* machines with their ports, or a volume, or a cluster.                   *)
(***************************************************************************)
MaxDeleteCalls == 6

ClusterTemplateCatalogue ==
    {[id |-> 1, coe |-> "kubernetes", labels |-> <<>>],
     [id |-> 2, coe |-> "swarm", labels |-> <<>>]}

MissingClusterTemplate == NextId(ClusterTemplateCatalogue)

Cluster(id, cluster_template_id, status, api_address) ==
    [id |-> id, cluster_template_id |-> cluster_template_id, status |-> status,
     api_address |-> api_address, node_count |-> 1]

MissingCluster == NextId({Cluster(1, 1, "CREATE_COMPLETE", "")})

DeleteMachine ==
    \E machine \in Machines, gone \in BOOLEAN, fail \in 0..MaxDeleteCalls :
        LET c == delete_machine(Begin(cloud, fail), machine, gone)
        IN  /\ fail <= Len(c.log)
            /\ gone \/ \E i \in DOMAIN c.log :
                          c.log[i].call = "servers.delete" /\ c.log[i].ok
            /\ cloud' = c.cloud
            /\ last' = Done("delete_machine", <<machine, gone>>, cloud, c)
            /\ UNCHANGED <<session, calls>>

DeleteKubernetesCluster ==
    \E cluster \in {1, MissingCluster}, gone \in BOOLEAN, fail \in 0..MaxDeleteCalls :
        LET c == delete_kubernetes_cluster(Begin(cloud, fail), cluster, gone)
        IN  /\ fail <= Len(c.log)
            /\ gone \/ \E i \in DOMAIN c.log :
                          c.log[i].call = "clusters.delete" /\ c.log[i].ok
            /\ cloud' = c.cloud
            /\ last' = Done("delete_kubernetes_cluster", <<cluster, gone>>, cloud, c)
            /\ UNCHANGED <<session, calls>>

MachineTenancies ==
    {[EmptyCloud EXCEPT !.networks = nets, !.servers = Servers, !.ports = ports,
                        !.floatingips = {[id |-> p.id, port_id |-> p.id] :
                                            p \in {q \in ports : q.device_id = 1}}] :
        nets \in SUBSET {n \in NetworkCatalogue : RoleTag("internal") \in n.tags},
        ports \in SUBSET PortCatalogue}

VolumeTenancies ==
    {[EmptyCloud EXCEPT !.volumes = {v}] :
        v \in {r \in VolumeRecords :
                 /\ r.status \in {"available", "error_deleting", "in-use", "deleting"}
                 /\ Len(r.attachments) = IF r.status = "in-use" THEN 1 ELSE 0}}

ClusterTenancies ==
    {[EmptyCloud EXCEPT !.cluster_templates = ClusterTemplateCatalogue,
                        !.clusters = {Cluster(1, t, st, "")}] :
        t \in Ids(ClusterTemplateCatalogue) \cup {MissingClusterTemplate},
        st \in {"CREATE_COMPLETE", "DELETE_IN_PROGRESS", "DELETE_FAILED"}}

InitDelete ==
    /\ session \in Sessions({NoTemplate}, {NoTemplate}, {NoAzMap})
    /\ cloud \in MachineTenancies \cup VolumeTenancies \cup ClusterTenancies
    /\ last = NoCall
    /\ calls = NoCalls

NextDelete == DeleteMachine \/ DeleteVolume \/ DeleteKubernetesCluster

SpecDelete == InitDelete /\ [][NextDelete]_vars

(***************************************************************************)
(* Cluster creation and kubeconfig generation.  A session serves one       *)
(* request: the counts of a cluster-creation request and the key the key   *)
(* store holds for the user are what the session was opened with.          *)
(***************************************************************************)
MaxClusters == 2
MaxK8sCalls == 5

K8sTemplateCatalogue ==
    ClusterTemplateCatalogue
    \cup {[id |-> MissingClusterTemplate, coe |-> "kubernetes",
           labels |-> [monitoring_enabled |-> "True"]]}

ApiAddresses == {"", "https://10.0.0.5:6443"}

\* the requests a caller makes: each count supplied or left out
ClusterRequests ==
    [worker_count : {NoCount, 0, 3}, min_worker_count : {NoCount, 1},
     max_worker_count : {NoCount, 5}, auto_scaling_enabled : BOOLEAN]

CreateKubernetesCluster ==
    \E template_id \in Ids(cloud.cluster_templates)
                          \cup {NextId(cloud.cluster_templates)},
       ssh_key \in {NoKey, session.ssh_key}, fail \in 0..MaxK8sCalls :
        LET request == session.cluster_request
            c == create_kubernetes_cluster(Begin(cloud, fail), template_id,
                    request.worker_count, request.min_worker_count,
                    request.max_worker_count, request.auto_scaling_enabled,
                    ssh_key)
        IN  /\ fail <= Len(c.log)
            /\ Cardinality(cloud.clusters) < MaxClusters
            /\ cloud' = c.cloud
            /\ last' = Done("create_kubernetes_cluster",
                            [template_id |-> template_id, request |-> request,
                             ssh_key |-> ssh_key], cloud, c)
            /\ UNCHANGED <<session, calls>>

\* the cluster is named by id, or handed in as a record fetched earlier
GenerateKubeconfig ==
    \E cluster \in {[kind |-> "id", id |-> id] :
                        id \in Ids(cloud.clusters) \cup {NextId(cloud.clusters)}}
                   \cup {[kind |-> "dto",
                          dto |-> [id |-> x.id, status |-> x.status,
                                   api_address |-> a, worker_count |-> x.node_count]] :
                            x \in cloud.clusters, a \in ApiAddresses},
       fail \in 0..MaxK8sCalls :
        LET c == generate_kubeconfig_for_kubernetes_cluster(Begin(cloud, fail), cluster)
        IN  /\ fail <= Len(c.log)
            /\ cloud' = c.cloud
            /\ last' = Done("generate_kubeconfig_for_kubernetes_cluster",
                            cluster, cloud, c)
            /\ UNCHANGED <<session, calls>>

\* PUT on the user's SSH public key: the key store holds the new key
SshPublicKey ==
    \E ssh_public_key \in SshKeys :
        /\ session' = [session EXCEPT !.ssh_key = ssh_public_key]
        /\ last' = Done("ssh_public_key", ssh_public_key, cloud, Begin(cloud, 0))
        /\ UNCHANGED <<cloud, calls>>

(***************************************************************************)
(* SpecKubeconfig: kubeconfig generation over a tenancy with one cluster,  *)
(* which may be deleted meanwhile.                                         *)
(***************************************************************************)
InitKubeconfig ==
    /\ session \in Sessions({NoTemplate}, {NoTemplate}, {NoAzMap})
    /\ \E t \in Ids(K8sTemplateCatalogue) \cup {NextId(K8sTemplateCatalogue)},
          a \in ApiAddresses,
          st \in {"CREATE_IN_PROGRESS", "CREATE_COMPLETE", "UPDATE_IN_PROGRESS"} :
          cloud = [EmptyCloud EXCEPT
                     !.cluster_templates = K8sTemplateCatalogue,
                     !.clusters = {Cluster(1, t, st, a)}]
    /\ last = NoCall
    /\ calls = NoCalls

NextKubeconfig == GenerateKubeconfig \/ DeleteKubernetesCluster

SpecKubeconfig == InitKubeconfig /\ [][NextKubeconfig]_vars

(***************************************************************************)
(* SpecK8s: cluster creation, one request per session, then kubeconfig     *)
(* generation for the clusters of the tenancy.                             *)
(***************************************************************************)
InitK8s ==
    /\ \E s \in Sessions({NoTemplate}, {NoTemplate}, {NoAzMap}),
          request \in ClusterRequests :
          session = [s EXCEPT !.cluster_request = request]
    /\ cloud = [EmptyCloud EXCEPT !.cluster_templates = K8sTemplateCatalogue]
    /\ last = NoCall
    /\ calls = NoCalls

NextK8s == CreateKubernetesCluster \/ GenerateKubeconfig

SpecK8s == InitK8s /\ [][NextK8s]_vars

(***************************************************************************)
(* SpecKey: one user, whose key may change, creating machines and          *)
(* clusters in a tenancy with one cluster template.                        *)
(***************************************************************************)
InitKey ==
    /\ \E s \in Sessions({NoTemplate}, {NoTemplate}, {NoAzMap}) :
          session = [s EXCEPT !.cluster_request.worker_count = 3]
    /\ cloud = [EmptyCloud EXCEPT
                  !.networks = {n \in NetworkCatalogue :
                                  RoleTag("internal") \in n.tags},
                  !.cluster_templates = {t \in ClusterTemplateCatalogue :
                                           t.coe = "kubernetes"}]
    /\ last = NoCall
    /\ calls = NoCalls

NextKey == SshPublicKey \/ CreateMachine \/ CreateKubernetesCluster

SpecKey == InitKey /\ [][NextKey]_vars

(***************************************************************************)
(* SpecRace: two scoped sessions of the tenancy each run                   *)
(* attach_external_ip for the same machine and different external IPs.     *)
(* calls[s] is the call of session s: the statement it is at and its       *)
(* local variables.  One step is one vendor call, on the vendor state as   *)
(* it is at that moment.                                                   *)
(***************************************************************************)
RaceIps == 3
RaceMachine == 1

Call(ip, machine) ==
    [pc |-> "tenant_network", ip |-> ip, machine |-> machine,
     tenant_network |-> None, port |-> None, current |-> None, err |-> NoError]

\* the call of session s goes on at pc unless c raised
Continue(s, c, pc) ==
    [calls EXCEPT ![s].pc = IF c.err # NoError THEN "done" ELSE pc,
                  ![s].err = c.err]

\* tenant_network = self._tenant_network()
AttachTenantNetwork ==
    \E s \in DOMAIN calls :
        /\ calls[s].pc = "tenant_network"
        /\ LET c == _tenant_network(Begin(cloud, 0), FALSE)
               c1 == IF c.err = NoError /\ c.ret = None
                     THEN Raise(c, "InvalidOperationError") ELSE c
           IN  /\ cloud' = c1.cloud
               /\ calls' = [Continue(s, c1, "port") EXCEPT ![s].tenant_network = c1.ret]
        /\ UNCHANGED <<session, last>>

\* port = next(ports.all(device_id = machine, network_id = tenant_network.id), None)
AttachPort ==
    \E s \in DOMAIN calls :
        /\ calls[s].pc = "port"
        /\ LET c == ports_first(Begin(cloud, 0), calls[s].machine,
                                calls[s].tenant_network)
               c1 == IF c.err = NoError /\ c.ret = None
                     THEN Raise(c, "InvalidOperationError") ELSE c
           IN  /\ cloud' = c1.cloud
               /\ calls' = [Continue(s, c1, "current") EXCEPT ![s].port = c1.ret]
        /\ UNCHANGED <<session, last>>

\* current = floatingips.find_by_port_id(port.id)
AttachCurrent ==
    \E s \in DOMAIN calls :
        /\ calls[s].pc = "current"
        /\ LET c == floatingips_find_by_port_id(Begin(cloud, 0), calls[s].port)
           IN  /\ cloud' = c.cloud
               /\ calls' = [Continue(s, c, IF c.ret # None THEN "evict" ELSE "get")
                               EXCEPT ![s].current = c.ret]
        /\ UNCHANGED <<session, last>>

\* current._update(port_id = None)
AttachEvict ==
    \E s \in DOMAIN calls :
        /\ calls[s].pc = "evict"
        /\ LET c == floatingip_update(Begin(cloud, 0), calls[s].current, None)
           IN  /\ cloud' = c.cloud
               /\ calls' = Continue(s, c, "get")
        /\ UNCHANGED <<session, last>>

\* fip = floatingips.get(ip)
AttachGet ==
    \E s \in DOMAIN calls :
        /\ calls[s].pc = "get"
        /\ LET c == floatingips_get(Begin(cloud, 0), calls[s].ip)
           IN  /\ cloud' = c.cloud
               /\ calls' = Continue(s, c, "update")
        /\ UNCHANGED <<session, last>>

\* fip._update(port_id = port.id)
AttachUpdate ==
    \E s \in DOMAIN calls :
        /\ calls[s].pc = "update"
        /\ LET c == floatingip_update(Begin(cloud, 0), calls[s].ip, calls[s].port)
           IN  /\ cloud' = c.cloud
               /\ calls' = Continue(s, c, "return")
        /\ UNCHANGED <<session, last>>

\* return self._from_api_floatingip(...)
AttachReturn ==
    \E s \in DOMAIN calls :
        /\ calls[s].pc = "return"
        /\ LET c == _from_api_floatingip(Begin(cloud, 0), calls[s].ip, {})
           IN  /\ cloud' = c.cloud
               /\ calls' = Continue(s, c, "done")
        /\ UNCHANGED <<session, last>>

InitRace ==
    /\ session \in Sessions({NoTemplate}, {NoTemplate}, {NoAzMap})
    /\ \E binding \in [1..RaceIps -> Ids(PortCatalogue) \cup {None}] :
          /\ \A i, j \in 1..RaceIps :
                (i # j /\ binding[i] = binding[j]) => binding[i] = None
          /\ cloud = [EmptyCloud EXCEPT
                        !.networks = {n \in NetworkCatalogue : ~n.external},
                        !.ports = PortCatalogue,
                        !.floatingips =
                           {[id |-> i, port_id |-> binding[i]] : i \in 1..RaceIps}]
    /\ \E ip1, ip2 \in 1..RaceIps :
          /\ ip1 # ip2
          /\ calls = <<Call(ip1, RaceMachine), Call(ip2, RaceMachine)>>
    /\ last = NoCall

NextRace ==
    \/ AttachTenantNetwork
    \/ AttachPort
    \/ AttachCurrent
    \/ AttachEvict
    \/ AttachGet
    \/ AttachUpdate
    \/ AttachReturn

SpecRace == InitRace /\ [][NextRace]_vars

(***************************************************************************)
(* SpecClusters: the cluster operations and close of one scoped session,   *)
(* over the three configurations of the cluster engine and tenancies with  *)
(* or without a cluster that failed.                                       *)
(***************************************************************************)
MaxEngineClusters == 1
MaxClusterCalls == 4
MaxManagers == 2
MaxCloses == 1

Engines ==
    {NoEngine, [configured |-> TRUE, manages |-> TRUE],
     [configured |-> TRUE, manages |-> FALSE]}

ClusterNames == {<<"c1">>, <<"c2">>}

ClusterParams == {("count" :> <<"2">>), ("size" :> <<"small">>)}

UpdateParams == {("count" :> <<"3">>)}

EngineCatalogue ==
    { [id |-> 1, name |-> <<"c1">>, cluster_type |-> "slurm",
       parameter_values |->
          ("count" :> <<"2">>) @@ ("cluster_network" :> <<"tagged-int">>)
          @@ ("cluster_floating_network" :> <<"tagged-ext">>),
       tags |-> <<"engine-tag">>,
       error_message |-> <<"Quota exceeded", " for resources: ", "FloatingIP">>] }

StackCatalogue == {[id |-> 1, stack_name |-> <<"c1">>, tags |-> <<"stack-tag">>]}

ClusterRefs == 1..MaxEngineClusters

\* the bounds of the tenancy hold after the call
Bounded(c) ==
    /\ c.fail <= Len(c.log)
    /\ Cardinality(c.cloud.engine.clusters) <= MaxEngineClusters
    /\ c.cloud.engine.managers <= MaxManagers
    /\ c.cloud.engine.closed <= MaxCloses
    /\ c.cloud.connection_closed <= MaxCloses

Clusters ==
    \E fail \in 0..MaxClusterCalls :
        LET c == clusters(BeginSelf(cloud, session, fail))
        IN  /\ Bounded(c)
            /\ cloud' = c.cloud
            /\ session' = c.self
            /\ UNCHANGED calls
            /\ last' = Done("clusters", <<>>, cloud, c)

FindCluster ==
    \E id \in ClusterRefs, fail \in 0..MaxClusterCalls :
        LET c == find_cluster(BeginSelf(cloud, session, fail), id)
        IN  /\ Bounded(c)
            /\ cloud' = c.cloud
            /\ session' = c.self
            /\ UNCHANGED calls
            /\ last' = Done("find_cluster", <<id>>, cloud, c)

CreateCluster ==
    \E name \in ClusterNames, params \in ClusterParams, fail \in 0..MaxClusterCalls :
        LET c == create_cluster(BeginSelf(cloud, session, fail), name, "slurm", params)
        IN  /\ Bounded(c)
            /\ cloud' = c.cloud
            /\ session' = c.self
            /\ UNCHANGED calls
            /\ last' = Done("create_cluster", <<name, params>>, cloud, c)

UpdateCluster ==
    \E id \in ClusterRefs, params \in UpdateParams, fail \in 0..MaxClusterCalls :
        LET c == update_cluster(BeginSelf(cloud, session, fail), id, params)
        IN  /\ Bounded(c)
            /\ cloud' = c.cloud
            /\ session' = c.self
            /\ UNCHANGED calls
            /\ last' = Done("update_cluster", <<id, params>>, cloud, c)

PatchCluster ==
    \E id \in ClusterRefs, fail \in 0..MaxClusterCalls :
        LET c == patch_cluster(BeginSelf(cloud, session, fail), id)
        IN  /\ Bounded(c)
            /\ cloud' = c.cloud
            /\ session' = c.self
            /\ UNCHANGED calls
            /\ last' = Done("patch_cluster", <<id>>, cloud, c)

DeleteCluster ==
    \E id \in ClusterRefs, fail \in 0..MaxClusterCalls :
        LET c == delete_cluster(BeginSelf(cloud, session, fail), id)
        IN  /\ Bounded(c)
            /\ cloud' = c.cloud
            /\ session' = c.self
            /\ UNCHANGED calls
            /\ last' = Done("delete_cluster", <<id>>, cloud, c)

Close ==
    LET c == close(BeginSelf(cloud, session, 0))
    IN  /\ Bounded(c)
        /\ cloud' = c.cloud
        /\ session' = c.self
        /\ UNCHANGED calls
        /\ last' = Done("close", <<>>, cloud, c)

InitClusters ==
    /\ \E s \in Sessions({NoTemplate}, {NoTemplate}, {NoAzMap}), engine \in Engines :
          session = [s EXCEPT !._cluster_engine = engine]
    /\ \E existing \in SUBSET EngineCatalogue :
          cloud = [EmptyCloud EXCEPT
                      !.networks = {n \in NetworkCatalogue : n.tags # {}},
                      !.stacks = StackCatalogue,
                      !.engine.clusters = existing]
    /\ last = NoCall
    /\ calls = NoCalls

NextClusters ==
    \/ Clusters
    \/ FindCluster
    \/ CreateCluster
    \/ UpdateCluster
    \/ PatchCluster
    \/ DeleteCluster
    \/ Close

SpecClusters == InitClusters /\ [][NextClusters]_vars

(***************************************************************************)
(* SpecErrors: the error translation, over the failures a vendor call can  *)
(* end with.                                                               *)
(***************************************************************************)
StatusCodes == {400, 401, 403, 404, 405, 409, 413, 422, 429, 500, 502, 503}

Messages ==
    {<<>>,
     <<"Quota ", "exceeded", " for ", "instance", "s">>,
     <<"Quota ", "Exceeded">>,
     <<"QUOTA ", "EXCEEDED">>,
     <<"VolumeSize", "ExceedsAvailableQuota", ": Requested volume">>,
     <<"volumesize", "exceedsavailablequota">>,
     <<"Invalid ", "flavorRef", " provided">>,
     <<"Instance", " could not be found">>,
     <<"Flavor", " is disabled">>}

Failures ==
    [kind : {"ApiError"}, status_code : StatusCodes, message : Messages]
    \cup [kind : {"RackitError", "ServiceNotSupported"}, status_code : {NoStatus},
          message : Messages]

\* a vendor call inside a decorated operation raises exc
ConvertExceptions ==
    \E exc \in Failures :
        LET raised == convert_exceptions(exc)
        IN  /\ last' = Done("convert_exceptions", exc, cloud,
                            [Begin(cloud, 0) EXCEPT
                                !.err = raised.err,
                                !.dto = [id |-> None, message |-> raised.message]])
            /\ UNCHANGED <<cloud, session, calls>>

InitErrors ==
    /\ session \in Sessions({NoTemplate}, {NoTemplate}, {NoAzMap})
    /\ cloud = EmptyCloud
    /\ last = NoCall
    /\ calls = NoCalls

NextErrors == ConvertExceptions

SpecErrors == InitErrors /\ [][NextErrors]_vars

(***************************************************************************)
(* What the properties below read from the record of the last call.        *)
(***************************************************************************)
Role(op) == IF op = "_tenant_network" THEN "internal" ELSE "external"

IsResolution == last.op \in {"_tenant_network", "_external_network"}

TemplateOf(role) ==
    IF role = "internal" THEN session.internal_net_template
    ELSE session.external_net_template

\* the networks of cl carrying the tag portal-<role>
TaggedIn(cl, role) == {n \in cl.networks : <<"portal-", role>> \in n.tags}

\* the name a template stands for in this tenancy
NameFrom(template) ==
    [i \in DOMAIN template |->
        IF template[i] = "{tenant_name}" THEN session.tenancy ELSE template[i]]

NamedIn(cl, name) == {n \in cl.networks : n.name = name}

ExternalIn(cl) == {n \in cl.networks : n.external}

\* the vendor calls of the last call that succeeded, by name
Succeeded(call) == {i \in DOMAIN last.log : last.log[i].call = call /\ last.log[i].ok}

Mutating ==
    {"networks.create", "network._update_tags", "subnets.create", "ports.create",
     "keypairs.create", "servers.create", "clusters.create",
     "certificates.create", "floatingip._update",
     "volume_attachments.create", "volumes.delete", "port._delete",
     "servers.delete", "clusters.delete"}

NothingMutated ==
    /\ cloud = last.pre
    /\ \A i \in DOMAIN last.log : last.log[i].call \notin Mutating

\* every vendor call of the last call succeeded at the transport level
VendorUp == last.fail = 0

(***************************************************************************)
(* C1: for both roles, when a network tagged portal-<role> exists, the     *)
(* resolution returns a tagged network, raises nothing and creates         *)
(* nothing, whatever the template, createIfMissing and the number of       *)
(* external candidates are.                                                *)
(***************************************************************************)
C1_TaggedNetworkWins ==
    (IsResolution /\ VendorUp /\ TaggedIn(last.pre, Role(last.op)) # {})
        => /\ last.err = NoError
           /\ last.ret \in Ids(TaggedIn(last.pre, Role(last.op)))
           /\ NothingMutated

C1_Witness ==
    /\ last.op = "_external_network"
    /\ VendorUp
    /\ TaggedIn(last.pre, "external") # {}
    /\ session.external_net_template # NoTemplate
    /\ NamedIn(last.pre, NameFrom(session.external_net_template)) = {}
    /\ Cardinality(ExternalIn(last.pre)) >= 2
    /\ last.ret \in Ids(TaggedIn(last.pre, "external"))

(***************************************************************************)
(* C2: with no tagged network and a template configured for the role, the  *)
(* resolution looks up exactly the template with the tenancy name          *)
(* substituted; if no network has that name it raises                      *)
(* InvalidOperationError, returns no network and creates nothing, also     *)
(* with createIfMissing and also with exactly one external candidate.      *)
(***************************************************************************)
C2_TemplateMissIsFatal ==
    (/\ IsResolution /\ VendorUp
     /\ TaggedIn(last.pre, Role(last.op)) = {}
     /\ TemplateOf(Role(last.op)) # NoTemplate)
        => LET name == NameFrom(TemplateOf(Role(last.op)))
           IN  /\ Len(last.log) = 2
               /\ last.log[2].call = "networks.find_by_name"
               /\ last.log[2].arg = name
               /\ NamedIn(last.pre, name) # {}
                    => last.err = NoError /\ last.ret \in Ids(NamedIn(last.pre, name))
               /\ NamedIn(last.pre, name) = {}
                    => /\ last.err = "InvalidOperationError"
                       /\ last.ret = None
                       /\ NothingMutated

C2_Witness ==
    /\ last.op = "_tenant_network"
    /\ last.arg = <<TRUE>>
    /\ VendorUp
    /\ TaggedIn(last.pre, "internal") = {}
    /\ session.internal_net_template # NoTemplate
    /\ NamedIn(last.pre, NameFrom(session.internal_net_template)) = {}
    /\ last.err = "InvalidOperationError"

(***************************************************************************)
(* C3: with no tagged external network and no external template,           *)
(* _external_network returns a network iff the external networks (unshared *)
(* and shared together) are exactly one, and then returns that one;        *)
(* otherwise it raises InvalidOperationError and selects none.             *)
(***************************************************************************)
C3_ExactlyOneExternal ==
    (/\ last.op = "_external_network" /\ VendorUp
     /\ TaggedIn(last.pre, "external") = {}
     /\ session.external_net_template = NoTemplate)
        => IF Cardinality(ExternalIn(last.pre)) = 1
           THEN last.err = NoError /\ last.ret \in Ids(ExternalIn(last.pre))
           ELSE last.err = "InvalidOperationError" /\ last.ret = None

C3_Witness ==
    /\ last.op = "_external_network" /\ VendorUp
    /\ TaggedIn(last.pre, "external") = {}
    /\ session.external_net_template = NoTemplate
    /\ Cardinality(ExternalIn(last.pre)) = 1
    /\ \A n \in ExternalIn(last.pre) : n.shared /\ last.ret = n.id

(***************************************************************************)
(* C4, as claimed: with no tagged internal network and no internal         *)
(* template, _tenant_network(create_network = True) creates one network    *)
(* and one IPv4 subnet with the configured CIDR on it, tags the network    *)
(* only after the subnet has been created, and returns that network.       *)
(***************************************************************************)
IsAutoCreation ==
    /\ last.op = "_tenant_network" /\ last.arg = <<TRUE>> /\ VendorUp
    /\ TaggedIn(last.pre, "internal") = {}
    /\ session.internal_net_template = NoTemplate

\* one network and one subnet more than before, the subnet on the network
AutoCreated ==
    LET newnets == cloud.networks \ last.pre.networks
        newsubs == cloud.subnets \ last.pre.subnets
    IN  /\ last.err = NoError
        /\ last.pre.networks \subseteq cloud.networks
        /\ Cardinality(newnets) = 1
        /\ Cardinality(Succeeded("networks.create")) = 1
        /\ newsubs = {[network_id |-> last.ret, ip_version |-> 4,
                       cidr |-> session.internal_net_cidr]}
        /\ Cardinality(Succeeded("subnets.create")) = 1
        /\ \A n \in newnets :
              /\ n.id = last.ret
              /\ n.tags = {<<"portal-", "internal">>}
              /\ n.id \notin Ids(last.pre.networks)
        /\ Cardinality(Succeeded("network._update_tags")) = 1

C4_TagAfterSubnet ==
    IsAutoCreation
        => /\ AutoCreated
           /\ \A i \in Succeeded("network._update_tags"),
                 j \in Succeeded("subnets.create") : j < i

(***************************************************************************)
(* C4, amended: the same, except that the network is tagged right after    *)
(* it is created and before the subnet is created.                         *)
(***************************************************************************)
C4_TagBeforeSubnet ==
    IsAutoCreation
        => /\ AutoCreated
           /\ \A i \in Succeeded("network._update_tags"),
                 j \in Succeeded("subnets.create"),
                 k \in Succeeded("networks.create") : i = k + 1 /\ j = i + 1

C4_Witness ==
    /\ IsAutoCreation
    /\ last.err = NoError
    /\ last.ret \in Ids(cloud.networks) \ Ids(last.pre.networks)
    /\ last.pre.networks # {}

(***************************************************************************)
(* C5: _external_network never creates or tags anything, in any branch;    *)
(* _tenant_network without createIfMissing leaves networks, subnets and    *)
(* tags unchanged, and returns no network (and raises nothing) when        *)
(* neither tag nor template yields one.                                    *)
(***************************************************************************)
C5_ResolutionFrame ==
    /\ last.op = "_external_network" => NothingMutated
    /\ (last.op = "_tenant_network" /\ last.arg = <<FALSE>>)
        => /\ NothingMutated
           /\ (/\ VendorUp
               /\ TaggedIn(last.pre, "internal") = {}
               /\ session.internal_net_template = NoTemplate)
                => last.ret = None /\ last.err = NoError

C5_Witness ==
    /\ last.op = "_tenant_network" /\ last.arg = <<FALSE>> /\ VendorUp
    /\ TaggedIn(last.pre, "internal") = {}
    /\ session.internal_net_template = NoTemplate
    /\ last.pre.networks # {}
    /\ last.ret = None
    /\ last.err = NoError

(***************************************************************************)
(* C6, as claimed: create_machine with an image whose metadata requests    *)
(* the backdoor network, on a provider with an empty availability-zone     *)
(* map, fails with ImproperlyConfiguredError having created no network,    *)
(* no subnet and no port, from every state of the tenancy.                 *)
(***************************************************************************)
\* the metadata of the image argument as create_machine reads it
MetadataOf(image) ==
    IF image.kind = "dto" THEN image.dto.metadata
    ELSE LET data == (CHOOSE i \in last.pre.images : i.id = image.id).data
             keys == {k \in DOMAIN data : Len(k) >= 1 /\ k[1] = session.metadata_prefix}
         IN  [k \in {Tail(key) : key \in keys} |->
                 data[CHOOSE key \in keys : Tail(key) = k]]

RequestsBackdoor(image) ==
    /\ image.kind = "id" => image.id \in Ids(last.pre.images)
    /\ <<session.metadata_prefix, "private_if">> \in DOMAIN MetadataOf(image)
    /\ MetadataOf(image)[<<session.metadata_prefix, "private_if">>] # ""

C6_BackdoorUnconfiguredFailsClean ==
    (/\ last.op = "create_machine" /\ VendorUp
     /\ RequestsBackdoor(last.arg[1])
     /\ DOMAIN session.az_backdoor_net_map = {})
        => /\ last.err = "ImproperlyConfiguredError"
           /\ cloud.networks = last.pre.networks
           /\ cloud.subnets = last.pre.subnets
           /\ cloud.ports = last.pre.ports

(***************************************************************************)
(* What the external-IP properties read from the vendor state.             *)
(***************************************************************************)
\* the id of the network the priority chain yields in cl without creating
TenantNetIn(cl) ==
    LET named == NamedIn(cl, NameFrom(session.internal_net_template))
    IN  IF TaggedIn(cl, "internal") # {}
        THEN CHOOSE id \in Ids(TaggedIn(cl, "internal")) :
                \A n \in TaggedIn(cl, "internal") : id <= n.id
        ELSE IF session.internal_net_template # NoTemplate /\ named # {}
        THEN CHOOSE id \in Ids(named) : \A n \in named : id <= n.id
        ELSE None

\* the ports that connect the machine to the tenant network of cl
TenantPorts(cl, machine) ==
    {p \in cl.ports : p.device_id = machine /\ p.network_id = TenantNetIn(cl)}

BoundTo(cl, port_id) == {f \in cl.floatingips : f.port_id = port_id}

(***************************************************************************)
(* C7: starting with every port referenced by at most one external IP,     *)
(* after any sequence of attach_external_ip and detach_external_ip calls   *)
(* every port is still referenced by at most one; after a successful       *)
(* attach_external_ip(ip, machine), ip is the only external IP bound to    *)
(* the machine's tenant-network port, any IP bound to it before having     *)
(* been unbound before ip was bound.                                       *)
(***************************************************************************)
C7_SinglePortOwner ==
    /\ \A p \in cloud.ports : Cardinality(BoundTo(cloud, p.id)) <= 1
    /\ (last.op = "attach_external_ip" /\ last.err = NoError)
        => /\ TenantPorts(last.pre, last.arg[2]) # {}
           /\ \A p \in TenantPorts(last.pre, last.arg[2]) :
                /\ Ids(BoundTo(cloud, p.id)) = {last.arg[1]}
                /\ \A f \in BoundTo(last.pre, p.id) :
                      \E i, j \in Succeeded("floatingip._update") :
                          /\ i < j
                          /\ last.log[i].arg = <<f.id, None>>
                          /\ last.log[j].arg = <<last.arg[1], p.id>>

C7_Witness ==
    /\ last.op = "attach_external_ip" /\ last.err = NoError
    /\ \E p \in TenantPorts(last.pre, last.arg[2]) :
          /\ \E f \in BoundTo(last.pre, p.id) : f.id # last.arg[1]
          /\ \E g \in last.pre.floatingips :
                g.id = last.arg[1] /\ g.port_id \notin {None, p.id}
          /\ Ids(BoundTo(cloud, p.id)) = {last.arg[1]}

(***************************************************************************)
(* C8: attach_external_ip(ip, machine) raises InvalidOperationError when   *)
(* the machine has no port on the resolved tenant network, and when no     *)
(* tenant network can be resolved at all; no floating-IP binding has       *)
(* changed and no network has been created.                                *)
(***************************************************************************)
C8_AttachNeedsTenantPort ==
    (/\ last.op = "attach_external_ip" /\ VendorUp
     /\ TenantPorts(last.pre, last.arg[2]) = {})
        => /\ last.err = "InvalidOperationError"
           /\ NothingMutated

C8_Witness ==
    /\ last.op = "attach_external_ip" /\ VendorUp
    /\ TenantNetIn(last.pre) = None
    /\ session.internal_net_template = NoTemplate
    /\ \E p \in last.pre.ports :
          p.device_id = last.arg[2] /\ BoundTo(last.pre, p.id) # {}
    /\ last.arg[1] \in Ids(last.pre.floatingips)
    /\ last.err = "InvalidOperationError"

(***************************************************************************)
(* What attach_volume was called with: the volume record it works on is    *)
(* the DTO handed in, or the translation of the record it looked up.       *)
(***************************************************************************)
IsAttachVolume == last.op = "attach_volume"

IsDeleteVolume == last.op = "delete_volume"

Resolved ==
    LET volume == last.arg[1]
    IN  IF volume.kind = "dto" THEN volume.dto
        ELSE _from_api_volume(ById(last.pre.volumes, volume.id))

HasResolved ==
    \/ last.arg[1].kind = "dto"
    \/ /\ Len(last.log) >= 1
       /\ last.log[1].ok

Issued(call) == {i \in DOMAIN last.log : last.log[i].call = call}

CallsFrom(i) == [j \in 1..(Len(last.log) - i + 1) |-> last.log[j + i - 1].call]

(***************************************************************************)
(* C9: attach_volume on a volume that is already attached to the machine   *)
(* returns the volume record unchanged, whatever its status, raises no     *)
(* error, and makes no mutating vendor call (no attachment is submitted).  *)
(***************************************************************************)
C9_AttachVolumeIdempotent ==
    (IsAttachVolume /\ HasResolved /\ Resolved.machine_id = last.arg[2]) =>
        /\ last.err = NoError
        /\ last.dto = Resolved
        /\ NothingMutated

C9_Witness ==
    /\ IsAttachVolume
    /\ last.arg[1].kind = "id"
    /\ HasResolved
    /\ Resolved.machine_id = last.arg[2]
    /\ Resolved.status = "DETACHING"
    /\ last.err = NoError
    /\ last.dto = Resolved

(***************************************************************************)
(* C10: attach_volume on a volume that is not attached to the machine and  *)
(* whose status is not AVAILABLE raises InvalidOperationError and submits  *)
(* no attachment.  An attachment is submitted only from AVAILABLE; when    *)
(* the vendor accepts it, the volume is refetched with force and the       *)
(* refetched record is returned.                                           *)
(***************************************************************************)
C10_AttachVolumeOnlyFromAvailable ==
    (IsAttachVolume /\ HasResolved /\ Resolved.machine_id # last.arg[2]) =>
        LET machine == last.arg[2]
            n == Len(last.log)
        IN  /\ Resolved.status # "AVAILABLE" =>
                /\ last.err = "InvalidOperationError"
                /\ NothingMutated
            /\ (\E i \in DOMAIN last.log : last.log[i].call = "volume_attachments.create")
                  => Resolved.status = "AVAILABLE"
            /\ (Resolved.status = "AVAILABLE" /\ VendorUp
                  /\ machine \in Ids(last.pre.servers)
                  /\ Resolved.id \in Ids(last.pre.volumes)
                  /\ ById(last.pre.volumes, Resolved.id).status = "available") =>
                /\ last.err = NoError
                /\ n >= 4
                /\ CallsFrom(n - 3) = <<"servers.get", "volume_attachments.create",
                                        "volumes.get", "volumes.get">>
                /\ last.log[n - 2].arg = <<machine, Resolved.id>>
                /\ last.log[n - 1].arg = <<Resolved.id, TRUE>>
                /\ last.dto = _from_api_volume(ById(cloud.volumes, Resolved.id))
                /\ last.dto.status \in {"ATTACHING", "IN_USE"}

C10_Witness ==
    /\ IsAttachVolume
    /\ HasResolved
    /\ Resolved.status = "AVAILABLE"
    /\ Resolved.machine_id = None
    /\ last.err = NoError
    /\ Succeeded("volume_attachments.create") # {}
    /\ last.dto.status = "IN_USE"
    /\ last.dto.machine_id = last.arg[2]

(***************************************************************************)
(* C11: delete_volume issues the vendor delete call if and only if the     *)
(* status of the volume is AVAILABLE or ERROR; for every other status it   *)
(* raises InvalidOperationError and leaves the volume unchanged.           *)
(***************************************************************************)
C11_DeleteVolumeOnlyFromAvailableOrError ==
    (IsDeleteVolume /\ HasResolved) =>
        /\ Issued("volumes.delete") # {} <=> Resolved.status \in {"AVAILABLE", "ERROR"}
        /\ Resolved.status \notin {"AVAILABLE", "ERROR"} =>
              /\ last.err = "InvalidOperationError"
              /\ NothingMutated

C11_Witness ==
    /\ IsDeleteVolume
    /\ HasResolved
    /\ Resolved.status = "ERROR"
    /\ Succeeded("volumes.delete") # {}
    /\ cloud.volumes # last.pre.volumes

(***************************************************************************)
(* What a delete operation was called on, and its vendor calls.            *)
(***************************************************************************)
IsDelete == last.op \in {"delete_machine", "delete_volume", "delete_kubernetes_cluster"}

DeleteCall ==
    CASE last.op = "delete_machine" -> "servers.delete"
      [] last.op = "delete_volume" -> "volumes.delete"
      [] last.op = "delete_kubernetes_cluster" -> "clusters.delete"

GetCall ==
    CASE last.op = "delete_machine" -> "servers.get"
      [] last.op = "delete_volume" -> "volumes.get"
      [] last.op = "delete_kubernetes_cluster" -> "clusters.get"

Deleted == IF last.op = "delete_volume" THEN Resolved.id ELSE last.arg[1]

Remaining ==
    CASE last.op = "delete_machine" -> Ids(cloud.servers)
      [] last.op = "delete_volume" -> Ids(cloud.volumes)
      [] last.op = "delete_kubernetes_cluster" -> Ids(cloud.clusters)

\* the refetch that follows the successful vendor delete
Refetches == {i + 1 : i \in Succeeded(DeleteCall)} \cap Issued(GetCall)

ReturnsRecord == last.err = NoError /\ (last.ret # None \/ last.dto # NoDto)

ReturnsNothing == last.err = NoError /\ last.ret = None /\ last.dto = NoDto

(***************************************************************************)
(* C12: once the vendor delete call of delete_machine, delete_volume or    *)
(* delete_kubernetes_cluster has succeeded, a refetch that reports the     *)
(* resource as not found makes the operation return nothing instead of     *)
(* raising, and a record is returned only when the refetch found the       *)
(* resource.                                                               *)
(***************************************************************************)
C12_DeleteReturnsNothingWhenGone ==
    (IsDelete /\ Succeeded(DeleteCall) # {}) =>
        /\ (\E i \in Refetches : ~last.log[i].ok /\ last.fail # i) => ReturnsNothing
        /\ ReturnsRecord =>
              /\ \E i \in Refetches : last.log[i].ok
              /\ Deleted \in Remaining

C12_Witness ==
    /\ last.op = "delete_machine"
    /\ Succeeded(DeleteCall) # {}
    /\ \E i \in Refetches : ~last.log[i].ok /\ last.fail # i
    /\ Deleted \notin Remaining
    /\ ReturnsNothing

(***************************************************************************)
(* C13: delete_machine deletes every port whose device is the machine      *)
(* before it issues the machine delete, issues the machine delete only     *)
(* when every port delete succeeded, and leaves no port of the machine     *)
(* behind whenever it returns normally.                                    *)
(***************************************************************************)
C13_PortsDeletedBeforeMachine ==
    last.op = "delete_machine" =>
        LET machine == last.arg[1]
            owned == {p \in last.pre.ports : p.device_id = machine}
        IN  /\ \A k \in Issued("servers.delete") :
                  /\ \A p \in owned :
                        \E j \in 1..(k - 1) :
                            /\ last.log[j].call = "port._delete"
                            /\ last.log[j].arg = p.id
                            /\ last.log[j].ok
                  /\ \A j \in 1..(k - 1) : last.log[j].ok
            /\ last.err = NoError =>
                  ~\E p \in cloud.ports : p.device_id = machine

C13_Witness ==
    /\ last.op = "delete_machine"
    /\ Cardinality({p \in last.pre.ports : p.device_id = last.arg[1]}) = 2
    /\ Cardinality(Succeeded("port._delete")) = 2
    /\ Succeeded("servers.delete") # {}
    /\ last.err = NoError

(***************************************************************************)
(* C20: whenever delete_kubernetes_cluster returns a record, its status is *)
(* DELETE_IN_PROGRESS whatever status the vendor reports.  As stated, the  *)
(* record is produced without fetching the cluster after the delete call.  *)
(***************************************************************************)
C20_DeleteClusterSynthesized ==
    (last.op = "delete_kubernetes_cluster" /\ ReturnsRecord) =>
        /\ last.dto.status = "DELETE_IN_PROGRESS"
        /\ Refetches = {}

(***************************************************************************)
(* C20, amended: the record is the cluster as fetched after the delete     *)
(* call, with its status replaced by DELETE_IN_PROGRESS.                   *)
(***************************************************************************)
C20_DeleteClusterStatusForced ==
    (last.op = "delete_kubernetes_cluster" /\ ReturnsRecord) =>
        /\ last.dto.status = "DELETE_IN_PROGRESS"
        /\ \E i \in Refetches : last.log[i].ok
        /\ last.arg[1] \in Ids(cloud.clusters)
        /\ LET api_cluster == ById(cloud.clusters, last.arg[1])
           IN  last.dto = [id |-> api_cluster.id,
                           status |-> "DELETE_IN_PROGRESS",
                           api_address |-> api_cluster.api_address,
                           worker_count |-> api_cluster.node_count]

C20_Witness ==
    /\ last.op = "delete_kubernetes_cluster"
    /\ ReturnsRecord
    /\ ById(cloud.clusters, last.arg[1]).status = "DELETE_FAILED"
    /\ last.dto.status = "DELETE_IN_PROGRESS"

(***************************************************************************)
(* The volume find_volume was called on, as the vendor holds it.           *)
(***************************************************************************)
FoundVolume ==
    /\ last.op = "find_volume"
    /\ VendorUp
    /\ last.arg[1] \in Ids(last.pre.volumes)

VendorVolume == ById(last.pre.volumes, last.arg[1])

\* the mapping table, each key in every spelling the vendor states use
SpelledAs(status) ==
    CASE status \in {"creating"} -> "CREATING"
      [] status \in {"available", "Available"} -> "AVAILABLE"
      [] status \in {"reserved", "attaching"} -> "ATTACHING"
      [] status \in {"detaching"} -> "DETACHING"
      [] status \in {"in-use", "IN-USE"} -> "IN_USE"
      [] status \in {"deleting"} -> "DELETING"
      [] status \in {"error", "error_deleting", "error_backing-up",
                     "error_restoring", "error_extending"} -> "ERROR"
      [] OTHER -> "OTHER"

(***************************************************************************)
(* C15: the translation of a volume status is total: every vendor status   *)
(* in the mapping table, in any letter case, yields its mapped status,     *)
(* every other string yields OTHER, and the translation never fails.       *)
(***************************************************************************)
C15_VolumeStatusTranslationTotal ==
    FoundVolume =>
        /\ last.err = NoError
        /\ last.dto.id = last.arg[1]
        /\ last.dto.status = SpelledAs(VendorVolume.status)

C15_Witness ==
    /\ FoundVolume
    /\ VendorVolume.status = "IN-USE"
    /\ last.err = NoError
    /\ last.dto.status = "IN_USE"

(***************************************************************************)
(* C18: every volume record produced by translation has its machine id    *)
(* set if and only if its status is ATTACHING, IN_USE or DETACHING.        *)
(***************************************************************************)
C18_MachineIdIffAttachedStatus ==
    (FoundVolume /\ last.err = NoError) =>
        (last.dto.machine_id # None
            <=> last.dto.status \in {"ATTACHING", "IN_USE", "DETACHING"})

(***************************************************************************)
(* C16: external_ips issues the bulk port listing if and only if the       *)
(* floating-IP listing returned at least one IP; with no floating IP it    *)
(* returns an empty collection and issues no port call of any kind.        *)
(***************************************************************************)
PortCalls == {i \in DOMAIN last.log :
                last.log[i].call \in {"ports.all", "ports.get", "ports.create",
                                      "port._delete"}}

C16_PortsListedIffAnyIp ==
    last.op = "external_ips" =>
        /\ Issued("ports.all") # {}
              <=> (Succeeded("floatingips.all") # {} /\ last.pre.floatingips # {})
        /\ last.pre.floatingips = {} =>
              /\ PortCalls = {}
              /\ VendorUp => (last.err = NoError /\ last.dto = [items |-> <<>>])

C16_Witness ==
    /\ last.op = "external_ips"
    /\ last.pre.floatingips = {}
    /\ last.pre.ports # {}
    /\ last.err = NoError
    /\ last.log = <<[call |-> "floatingips.all", arg |-> <<>>, ok |-> TRUE]>>
    /\ last.dto = [items |-> <<>>]

(***************************************************************************)
(* What a kubeconfig call was asked for: the cluster record it works on,   *)
(* handed in or fetched by id.                                             *)
(***************************************************************************)
IsKubeconfig == last.op = "generate_kubeconfig_for_kubernetes_cluster"

KubeconfigLoaded ==
    \/ last.arg.kind = "dto"
    \/ Succeeded("flavors.all") # {}

KubeconfigCluster ==
    IF last.arg.kind = "dto" THEN last.arg.dto
    ELSE ById(last.pre.clusters, last.arg.id)

(***************************************************************************)
(* C17: generate_kubeconfig_for_kubernetes_cluster for a cluster, handed   *)
(* in as a record or fetched by id, whose API address is unknown raises    *)
(* InvalidOperationError without having issued a certificate-signing       *)
(* request or a CA fetch to the vendor.                                    *)
(***************************************************************************)
C17_NoSigningWithoutApiAddress ==
    (IsKubeconfig /\ KubeconfigLoaded /\ ~Truthy(KubeconfigCluster.api_address)) =>
        /\ last.err = "InvalidOperationError"
        /\ Issued("certificates.create") = {}
        /\ Issued("certificates.get") = {}
        /\ ~last.drawn

\* a cluster fetched by id turns out to have no API address
C17_Witness ==
    /\ IsKubeconfig
    /\ last.arg.kind = "id"
    /\ KubeconfigLoaded
    /\ ~Truthy(KubeconfigCluster.api_address)
    /\ last.err = "InvalidOperationError"
    /\ Len(last.log) = 3

(***************************************************************************)
(* What create_kubernetes_cluster submitted to the vendor.                 *)
(***************************************************************************)
IsCreateCluster == last.op = "create_kubernetes_cluster"

Submitted == {last.log[i].arg : i \in Issued("clusters.create")}

(***************************************************************************)
(* C19: the node count submitted by create_kubernetes_cluster is           *)
(* worker_count when auto_scaling_enabled is false and min_worker_count    *)
(* when it is true, whichever of worker_count, min_worker_count and        *)
(* max_worker_count are supplied (a worker_count of 0 and both counts       *)
(* supplied together included).                                            *)
(***************************************************************************)
C19_NodeCountFollowsAutoScaling ==
    IsCreateCluster =>
        \A params \in Submitted :
            params.node_count = IF last.arg.request.auto_scaling_enabled
                                THEN last.arg.request.min_worker_count
                                ELSE last.arg.request.worker_count

(***************************************************************************)
(* The key of the last call and the keypairs of the user.                  *)
(***************************************************************************)
LastKey ==
    CASE last.op = "create_machine" -> last.arg[2]
      [] last.op = "create_kubernetes_cluster" -> last.arg.ssh_key
      [] OTHER -> NoKey

Named(keypairs, key_name) == {k \in keypairs : k.name = key_name}

(***************************************************************************)
(* C14: the keypair name depends only on the sanitized username and the    *)
(* key content: keys of the same content have the same name and keys of    *)
(* different content have different names; so the keypair a call resolves  *)
(* for its key holds that key's content, at most one keypair exists under  *)
(* a name, and a keypair that exists is reused, never created again.       *)
(***************************************************************************)
C14_KeypairNamePerKeyContent ==
    /\ \A k \in cloud.keypairs : k.name = KeyName(k.public_key)
    /\ \A k \in cloud.keypairs : Cardinality(Named(cloud.keypairs, k.name)) = 1
    /\ (LastKey # NoKey /\ Issued("keypairs.get") # {}) =>
          /\ Named(last.pre.keypairs, KeyName(LastKey)) # {}
                => Issued("keypairs.create") = {}
          /\ \A k \in Named(cloud.keypairs, KeyName(LastKey)) :
                k.public_key[2] = LastKey[2]

(***************************************************************************)
(* The errors of the taxonomy.                                             *)
(***************************************************************************)
Taxonomy ==
    {"AuthenticationError", "PermissionDeniedError", "ObjectNotFoundError",
     "BadInputError", "QuotaExceededError", "InvalidOperationError",
     "ImproperlyConfiguredError", "UnsupportedOperationError",
     "CommunicationError", "OperationTimedOutError"}

(***************************************************************************)
(* C23: every operation of a session, in every reachable vendor state,     *)
(* returns normally or raises an error of the taxonomy; this includes the  *)
(* refetch of the machine after delete_machine in a tenancy where no       *)
(* tenant network can be resolved.                                         *)
(***************************************************************************)
C23_OnlyTaxonomyErrors == last.err \in Taxonomy \cup {NoError}

(***************************************************************************)
(* What create_machine was called with and what it created.                *)
(***************************************************************************)
IsCreateMachine == last.op = "create_machine"

\* the vendor record of the image carries <metadata_prefix>private_if
CarriesPrivateIf(id) ==
    \E i \in last.pre.images :
        /\ i.id = id
        /\ <<session.metadata_prefix, "private_if">> \in DOMAIN i.data
        /\ i.data[<<session.metadata_prefix, "private_if">>] # ""

NewPorts == {p \in cloud.ports : p.id \notin Ids(last.pre.ports)}

NewServers == {x \in cloud.servers : x.id \notin Ids(last.pre.servers)}

(***************************************************************************)
(* C26: create_machine, given the id of an image whose vendor record       *)
(* carries the tag <metadata_prefix>private_if with a non-empty value, on  *)
(* a provider with a non-empty availability-zone map, creates a port on    *)
(* the network of one zone of the map and submits the machine with the     *)
(* tenant network and that port, with availability_zone set to the zone    *)
(* unless the zone is "nova", in which case no zone is submitted.          *)
(***************************************************************************)
C26_TaggedImageGetsBackdoorPort ==
    (/\ IsCreateMachine /\ VendorUp
     /\ last.arg[1].kind = "id"
     /\ CarriesPrivateIf(last.arg[1].id)
     /\ DOMAIN session.az_backdoor_net_map # {})
        => \E zone \in DOMAIN session.az_backdoor_net_map :
           \E p \in NewPorts :
           \E x \in NewServers :
              /\ p.network_id = session.az_backdoor_net_map[zone]
              /\ Len(x.networks) = 2
              /\ x.networks[1].uuid = TenantNetIn(cloud)
              /\ x.networks[2].port = p.id
              /\ x.availability_zone = IF zone = "nova" THEN "" ELSE zone

(***************************************************************************)
(* C27: a create_machine call that raises an error leaves the set of       *)
(* network ports of the tenancy as it was before the call.                 *)
(***************************************************************************)
C27_FailedCreateLeavesNoPort ==
    (IsCreateMachine /\ last.err # NoError) => Ids(cloud.ports) = Ids(last.pre.ports)

(***************************************************************************)
(* C29: when attach_external_ip raises an error, every binding of an       *)
(* external IP to a port is the same as before the call.                   *)
(***************************************************************************)
C29_FailedAttachKeepsBindings ==
    (last.op = "attach_external_ip" /\ last.err # NoError)
        => cloud.floatingips = last.pre.floatingips

(***************************************************************************)
(* C30: in a tenancy with no internal name template, whatever calls were   *)
(* made before and wherever a vendor call failed, at most one network      *)
(* named portal-internal exists, and a call that finds a tagged internal   *)
(* network creates no network.                                             *)
(***************************************************************************)
AutoCreatedIn(cl) == {n \in cl.networks : n.name = <<"portal-internal">>}

C30_AtMostOneAutoCreatedNetwork ==
    session.internal_net_template = NoTemplate
        => /\ Cardinality(AutoCreatedIn(cloud)) <= 1
           /\ (IsCreateMachine /\ TaggedIn(last.pre, "internal") # {})
                => Issued("networks.create") = {}

(***************************************************************************)
(* The steps of create_machine, in the order the operation takes them.     *)
(***************************************************************************)
Stage(call) ==
    CASE call = "images.get" -> 1
      [] call \in {"networks.all", "networks.find_by_name", "networks.create",
                   "network._update_tags", "subnets.create"} -> 2
      [] call = "ports.create" -> 3
      [] call \in {"keypairs.get", "keypairs.create"} -> 4
      [] call = "servers.create" -> 5
      [] OTHER -> 6

\* the vendor call completed; a keypair that is not found is created next
Completed(i) ==
    \/ last.log[i].ok
    \/ /\ last.log[i].call = "keypairs.get"
       /\ i < Len(last.log)
       /\ last.log[i + 1].call = "keypairs.create"
       /\ last.log[i + 1].ok

(***************************************************************************)
(* C25: create_machine submits the server only after image resolution,     *)
(* tenant-network resolution (creating the network if absent), backdoor    *)
(* port creation when requested and keypair resolution when a key is       *)
(* supplied have each completed, in that order; an image id that cannot    *)
(* be resolved raises BadInputError with no network, port, keypair or      *)
(* server created; after a successful submission the machine returned is   *)
(* the one re-fetched by the id of the server created.                     *)
(***************************************************************************)
C25_CreateMachineSequenced ==
    IsCreateMachine =>
        /\ \A s \in Issued("servers.create") :
              /\ \A i \in 1..(s - 1) : Completed(i)
              /\ \A i, j \in 1..s :
                    i < j => Stage(last.log[i].call) <= Stage(last.log[j].call)
              /\ last.arg[1].kind = "id" => last.log[1].call = "images.get"
              /\ \E i \in 1..(s - 1) : Stage(last.log[i].call) = 2
              /\ last.log[s].arg[1].uuid \in Ids(cloud.networks)
              /\ RequestsBackdoor(last.arg[1])
                    => \E i \in 1..(s - 1) : last.log[i].call = "ports.create"
              /\ last.arg[2] # NoKey
                    => /\ \E i \in 1..(s - 1) : Stage(last.log[i].call) = 4
                       /\ Named(cloud.keypairs, KeyName(last.arg[2])) # {}
        /\ (/\ last.arg[1].kind = "id"
            /\ last.arg[1].id \notin Ids(last.pre.images)
            /\ last.fail # 1)
              => /\ last.err = "BadInputError"
                 /\ Len(last.log) = 1
                 /\ NothingMutated
        /\ last.err = NoError
              => \E s \in Succeeded("servers.create"), g \in Succeeded("servers.get") :
                    /\ s < g
                    /\ last.log[g].arg = last.ret
                    /\ last.ret \in Ids(NewServers)

\* network, port and keypair are all created before the server is
C25_Witness ==
    /\ IsCreateMachine
    /\ last.arg[1].kind = "id"
    /\ last.err = NoError
    /\ Succeeded("networks.create") # {}
    /\ Succeeded("ports.create") # {}
    /\ Succeeded("keypairs.create") # {}
    /\ last.ret \in Ids(NewServers)

(***************************************************************************)
(* The failure the last translation was applied to; its message is read    *)
(* in this system's vocabulary, as the translation reads it.               *)
(***************************************************************************)
IsTranslation == last.op = "convert_exceptions"

Says(word) == InLower(word, _replace_resource_names(last.arg.message))

FixedMessages ==
    {<<"Unknown error with OpenStack API.">>,
     <<"Could not connect to OpenStack API.">>}

(***************************************************************************)
(* C22: a vendor failure is translated by status code and message text:    *)
(* 400 BadInputError, 401 AuthenticationError, 404 ObjectNotFoundError,    *)
(* 403 QuotaExceededError if the message contains "exceeded" in any case   *)
(* and PermissionDeniedError otherwise, 409 QuotaExceededError if it       *)
(* contains "exceeded" and InvalidOperationError otherwise, 413            *)
(* QuotaExceededError if it contains "exceedsavailablequota" and           *)
(* CommunicationError otherwise; every other status code and every         *)
(* failure without a status code is a CommunicationError with a fixed      *)
(* message.                                                                *)
(***************************************************************************)
C22_ErrorTranslation ==
    (IsTranslation /\ last.arg.kind \in {"ApiError", "RackitError"}) =>
        LET code == last.arg.status_code
        IN  /\ last.err =
                 CASE code = 400 -> "BadInputError"
                   [] code = 401 -> "AuthenticationError"
                   [] code = 404 -> "ObjectNotFoundError"
                   [] code = 403 -> IF Says("exceeded") THEN "QuotaExceededError"
                                    ELSE "PermissionDeniedError"
                   [] code = 409 -> IF Says("exceeded") THEN "QuotaExceededError"
                                    ELSE "InvalidOperationError"
                   [] code = 413 -> IF Says("exceedsavailablequota")
                                    THEN "QuotaExceededError"
                                    ELSE "CommunicationError"
                   [] OTHER -> "CommunicationError"
            /\ last.err = "CommunicationError" => last.dto.message \in FixedMessages

\* a 403 whose message spells the keyword with a capital
C22_Witness ==
    /\ IsTranslation
    /\ last.arg.status_code = 403
    /\ last.arg.message = <<"Quota ", "Exceeded">>
    /\ last.err = "QuotaExceededError"

(***************************************************************************)
(* The cluster records the last cluster operation returned, and the        *)
(* engine's records of the same clusters before and after it.              *)
(***************************************************************************)
ClusterOps ==
    {"clusters", "find_cluster", "create_cluster", "update_cluster",
     "patch_cluster", "delete_cluster"}

IsClusterOp == last.op \in ClusterOps

ReturnedClusters ==
    IF ~IsClusterOp \/ last.err # NoError THEN {}
    ELSE IF last.op = "clusters" THEN last.dto.items
    ELSE {last.dto}

Injected == {"cluster_network", "cluster_floating_network"}

EngineRecords(id) ==
    {k \in cloud.engine.clusters \cup last.pre.engine.clusters : k.id = id}

(***************************************************************************)
(* C21: no cluster record returned by clusters, find_cluster,              *)
(* create_cluster, update_cluster, patch_cluster or delete_cluster reports *)
(* cluster_network or cluster_floating_network among its parameters, and   *)
(* every other parameter is reported as the engine holds it.               *)
(***************************************************************************)
C21_InjectedParametersStripped ==
    \A r \in ReturnedClusters :
        /\ DOMAIN r.parameter_values \cap Injected = {}
        /\ \E k \in EngineRecords(r.id) :
              /\ DOMAIN k.parameter_values \ Injected = DOMAIN r.parameter_values
              /\ \A name \in DOMAIN r.parameter_values :
                    r.parameter_values[name] = k.parameter_values[name]

(***************************************************************************)
(* C24: the engine creates at most one manager for the session, at the     *)
(* first access; when it gave none, a cluster operation that gets to the   *)
(* manager raises UnsupportedOperationError and asks the engine nothing;   *)
(* close closes the connection, closes the manager exactly when one was    *)
(* created, and creates none.                                              *)
(***************************************************************************)
ReachesManager == IsClusterOp /\ (last.op # "create_cluster" \/ VendorUp)

ManagerCalls == {i \in DOMAIN last.log : last.log[i].call \in
                    {"manager.clusters", "manager.find_cluster",
                     "manager.create_cluster", "manager.update_cluster",
                     "manager.patch_cluster", "manager.delete_cluster"}}

BothCompleted == calls # NoCalls /\ \A s \in DOMAIN calls : calls[s].pc = "done"

C28_RacingAttachesLeaveOneOwner ==
    BothCompleted =>
        \A s \in DOMAIN calls :
            calls[s].port # None =>
                Cardinality(BoundTo(cloud, calls[s].port)) <= 1

====
